---- MODULE Spec2Model ----
(***************************************************************************)
(* Identity and authorization core of nebula-live: the RBAC store (roles,  *)
(* permissions, user-role and role-permission assignments) with the        *)
(* rbacService operations over it, and the stateless JWT manager with the  *)
(* RequireAuth middleware.                                                  *)
(*                                                                         *)
(* Time is counted in ticks.  The store stamps rows with the tick of the   *)
(* insert; the JWT library truncates every date of a token to a whole      *)
(* number of TimePrecision ticks.                                          *)
(***************************************************************************)
EXTENDS Integers, Sequences, FiniteSets, TLC

(***************************************************************************)
(* Bounds of the exploration.                                              *)
(***************************************************************************)
\* users created
MaxUsers == 1
\* roles and permissions created through the API (the bootstrap adds its own)
MaxAPIRoles == 1
MaxAPIPermissions == 1
\* last tick of the clock while the store is administered
MaxTime == 1
\* last tick of the clock while tokens are issued and presented
MaxTokenTime == 4
\* token pairs issued
MaxPairs == 2
\* the token pairs issued while the guarded groups are exercised
MaxSessions == 1
\* service calls that run at the same time
MaxCallers == 2
\* the store calls of one bootstrap run that a failure is tried on
MaxStoreCalls == 77

(***************************************************************************)
(* Values.                                                                 *)
(***************************************************************************)
\* a column that holds SQL NULL (assigned_by is Optional in both schemas)
NULL == -1

\* the id no row ever has: ids are assigned from 1 upwards
NoID == 0

nil == "nil"

\* ent's ConstraintError: a unique index or a foreign key refused the write
ConstraintError == "ent: constraint failed"

\* ent's NotFoundError, as returned by DeleteOneID on a missing row
EntNotFound == "ent: not found"

ErrRoleAlreadyExists == "role already exists"
ErrRoleNotFound == "role not found"
ErrSystemRoleCannotDelete == "system role cannot be deleted"
ErrPermissionAlreadyExists == "permission already exists"
ErrPermissionNotFound == "permission not found"
ErrSystemPermissionCannotDelete == "system permission cannot be deleted"
ErrUserRoleAlreadyExists == "user role already exists"
ErrUserRoleNotFound == "user role not found"
ErrRolePermissionAlreadyExists == "role permission already exists"
ErrRolePermissionNotFound == "role permission not found"
ErrUserAlreadyExists == "user already exists"
ErrUserNotFound == "user not found"
ErrInvalidCredentials == "invalid credentials"
ErrUserBanned == "user is banned"
ErrUserInactive == "user is inactive"

RoleNameAdmin == "admin"
RoleNameUser == "user"

\* the role list of createSystemRoles
systemRoles == << RoleNameAdmin, RoleNameUser >>

\* the permission list of createSystemPermissions, in source order
systemPermissions ==
    << [name |-> "user:read", resource |-> "user", action |-> "read"],
       [name |-> "user:write", resource |-> "user", action |-> "write"],
       [name |-> "user:delete", resource |-> "user", action |-> "delete"],
       [name |-> "user:manage", resource |-> "user", action |-> "manage"],
       [name |-> "role:read", resource |-> "role", action |-> "read"],
       [name |-> "role:write", resource |-> "role", action |-> "write"],
       [name |-> "role:delete", resource |-> "role", action |-> "delete"],
       [name |-> "role:manage", resource |-> "role", action |-> "manage"],
       [name |-> "permission:read", resource |-> "permission", action |-> "read"],
       [name |-> "permission:write", resource |-> "permission", action |-> "write"],
       [name |-> "permission:delete", resource |-> "permission", action |-> "delete"],
       [name |-> "permission:manage", resource |-> "permission", action |-> "manage"],
       [name |-> "system:manage", resource |-> "system", action |-> "manage"] >>

\* the list of the user role with one permission too many
userPermissionsWithWrite == << "user:read", "user:write" >>

\* the permission list of the user role in assignPermissionsToRoles
userPermissions == << "user:read" >>

\* the names of the catalog in ascending order, the order in which
\* GetSystemPermissions returns the system rows (Order(ent.Asc(name)))
NameOrder ==
    << "permission:delete", "permission:manage", "permission:read",
       "permission:write", "role:delete", "role:manage", "role:read",
       "role:write", "system:manage", "user:delete", "user:manage",
       "user:read", "user:write" >>

(***************************************************************************)
(* Inputs of the administrative calls.                                     *)
(***************************************************************************)
RoleNameInputs == { "editor" }

PermissionInputs ==
    { [name |-> "report:view", resource |-> "report", action |-> "view"],
      [name |-> "custom", resource |-> "user", action |-> "read"] }

UserInputs ==
    { [username |-> "alice", email |-> "alice@example.com", password |-> "secret"],
      [username |-> "bob", email |-> "bob@example.com", password |-> "Secret"] }

\* the roles and permissions the delete and assignment calls are tried on
FocusRoleNames == { "admin", "editor" }
FocusPermissionNames == { "user:read", "report:view", "custom" }

Resources == { "user", "role", "permission", "system", "report" }
Actions == { "read", "write", "delete", "manage", "view" }

VARIABLES
    users,            \* rows of table users
    roles,            \* rows of table roles
    permissions,      \* rows of table permissions
    userRoles,        \* rows of table user_roles
    rolePermissions,  \* rows of table role_permissions
    nextID,           \* the next auto-increment id of each table
    now,              \* the clock
    ret,              \* the last call on the store and the error it returned
    config,           \* the TokenConfig of the JWT manager
    issued,           \* the token pairs GenerateTokenPair has returned
    resp,             \* the outcome of the last call on the JWT manager
                      \* or the middleware
    calls             \* the service calls in flight, by caller

storeVars == << users, roles, permissions, userRoles, rolePermissions, nextID >>
authVars == << config, issued, resp >>
vars == << users, roles, permissions, userRoles, rolePermissions, nextID, now, ret,
          config, issued, resp, calls >>

\* the store as one value, for the operations that are composed of others
Store ==
    [ users |-> users, roles |-> roles, permissions |-> permissions,
      userRoles |-> userRoles, rolePermissions |-> rolePermissions,
      nextID |-> nextID ]

EmptyStore ==
    [ users |-> {}, roles |-> {}, permissions |-> {},
      userRoles |-> {}, rolePermissions |-> {},
      nextID |-> [ user |-> 1, role |-> 1, permission |-> 1 ] ]

Result(s, e) == [ s |-> s, err |-> e ]

IDs(rows) == { row.id : row \in rows }

(***************************************************************************)
(* The ent client: inserts and deletes under the schema's unique indexes   *)
(* and foreign keys (the connection enables foreign_keys).                 *)
(***************************************************************************)
\* The create calls of the model give each row its name as display name and
\* an empty description.
RoleCreateSave(s, name, isSystem) ==
    IF \E r \in s.roles : r.name = name
    THEN Result(s, ConstraintError)
    ELSE Result([ s EXCEPT !.roles = @ \cup { [ id |-> s.nextID.role, name |-> name,
                                                 displayName |-> name,
                                                 description |-> "",
                                                 isSystem |-> isSystem ] },
                           !.nextID.role = @ + 1 ], nil)

PermissionCreateSave(s, name, resource, action, isSystem) ==
    IF \E p \in s.permissions :
          p.name = name \/ (p.resource = resource /\ p.action = action)
    THEN Result(s, ConstraintError)
    ELSE Result([ s EXCEPT !.permissions = @ \cup
                               { [ id |-> s.nextID.permission, name |-> name,
                                   displayName |-> name, description |-> "",
                                   resource |-> resource, action |-> action,
                                   isSystem |-> isSystem ] },
                           !.nextID.permission = @ + 1 ], nil)

\* UserRoleCreateSave on a table without the unique index on
\* (user_id, role_id)
UserRoleCreateSaveNoIndex(s, userID, roleID, assignedBy, t) ==
    IF \/ userID \notin IDs(s.users)
       \/ roleID \notin IDs(s.roles)
       \/ (assignedBy # NULL /\ assignedBy \notin IDs(s.users))
    THEN Result(s, ConstraintError)
    ELSE Result([ s EXCEPT !.userRoles = @ \cup
                               { [ userID |-> userID, roleID |-> roleID,
                                   assignedBy |-> assignedBy, assignedAt |-> t ] } ],
                nil)

UserRoleCreateSave(s, userID, roleID, assignedBy, t) ==
    IF \/ \E ur \in s.userRoles : ur.userID = userID /\ ur.roleID = roleID
       \/ userID \notin IDs(s.users)
       \/ roleID \notin IDs(s.roles)
       \/ (assignedBy # NULL /\ assignedBy \notin IDs(s.users))
    THEN Result(s, ConstraintError)
    ELSE Result([ s EXCEPT !.userRoles = @ \cup
                               { [ userID |-> userID, roleID |-> roleID,
                                   assignedBy |-> assignedBy, assignedAt |-> t ] } ],
                nil)

RolePermissionCreateSave(s, roleID, permissionID, assignedBy, t) ==
    IF \/ \E rp \in s.rolePermissions :
             rp.roleID = roleID /\ rp.permissionID = permissionID
       \/ roleID \notin IDs(s.roles)
       \/ permissionID \notin IDs(s.permissions)
       \/ (assignedBy # NULL /\ assignedBy \notin IDs(s.users))
    THEN Result(s, ConstraintError)
    ELSE Result([ s EXCEPT !.rolePermissions = @ \cup
                               { [ roleID |-> roleID, permissionID |-> permissionID,
                                   assignedBy |-> assignedBy, assignedAt |-> t ] } ],
                nil)

\* column password holds the encoded hash, column status a value of the
\* enum of the schema
UserCreateSave(s, username, email, password, status) ==
    IF \E u \in s.users : u.username = username \/ u.email = email
    THEN Result(s, ConstraintError)
    ELSE Result([ s EXCEPT !.users = @ \cup { [ id |-> s.nextID.user,
                                                 username |-> username,
                                                 email |-> email,
                                                 password |-> password,
                                                 status |-> status ] },
                           !.nextID.user = @ + 1 ], nil)

\* DeleteOneID on tables without foreign keys: the row goes, the assignments
\* that refer to it stay
RoleDeleteOneIDNoForeignKey(s, id) ==
    IF id \notin IDs(s.roles)
    THEN Result(s, EntNotFound)
    ELSE Result([ s EXCEPT !.roles = { r \in @ : r.id # id } ], nil)

\* DeleteOneID: a missing row is ent's NotFoundError; a row that an
\* assignment still references is refused by the foreign key (the edges of
\* UserRole and RolePermission are Required, hence ON DELETE NO ACTION)
RoleDeleteOneID(s, id) ==
    IF id \notin IDs(s.roles)
    THEN Result(s, EntNotFound)
    ELSE IF \/ \E ur \in s.userRoles : ur.roleID = id
            \/ \E rp \in s.rolePermissions : rp.roleID = id
         THEN Result(s, ConstraintError)
         ELSE Result([ s EXCEPT !.roles = { r \in @ : r.id # id } ], nil)

PermissionDeleteOneID(s, id) ==
    IF id \notin IDs(s.permissions)
    THEN Result(s, EntNotFound)
    ELSE IF \E rp \in s.rolePermissions : rp.permissionID = id
         THEN Result(s, ConstraintError)
         ELSE Result([ s EXCEPT !.permissions = { p \in @ : p.id # id } ], nil)

\* ent's validator for a NotEmpty field
ValidationError == "ent: validator failed"

\* RoleUpdateOne that writes the whole entity back, is_system at its zero
\* value
RoleUpdateOneIDWholeRow(s, id, displayName, description) ==
    IF displayName = ""
    THEN Result(s, ValidationError)
    ELSE IF id \notin IDs(s.roles)
    THEN Result(s, EntNotFound)
    ELSE Result([ s EXCEPT !.roles =
                     { IF r.id = id
                       THEN [ r EXCEPT !.displayName = displayName,
                                       !.description = description,
                                       !.isSystem = FALSE ]
                       ELSE r : r \in @ } ], nil)

\* UpdateOneID(id).SetDisplayName(..).SetNillableDescription(&..).Save
RoleUpdateOneID(s, id, displayName, description) ==
    IF displayName = ""
    THEN Result(s, ValidationError)
    ELSE IF id \notin IDs(s.roles)
    THEN Result(s, EntNotFound)
    ELSE Result([ s EXCEPT !.roles =
                     { IF r.id = id
                       THEN [ r EXCEPT !.displayName = displayName,
                                       !.description = description ]
                       ELSE r : r \in @ } ], nil)

PermissionUpdateOneID(s, id, displayName, description) ==
    IF displayName = ""
    THEN Result(s, ValidationError)
    ELSE IF id \notin IDs(s.permissions)
    THEN Result(s, EntNotFound)
    ELSE Result([ s EXCEPT !.permissions =
                     { IF p.id = id
                       THEN [ p EXCEPT !.displayName = displayName,
                                       !.description = description ]
                       ELSE p : p \in @ } ], nil)

(***************************************************************************)
(* Repositories.                                                           *)
(***************************************************************************)
RoleExistsByName(s, name) == \E r \in s.roles : r.name = name

PermissionExistsByName(s, name) == \E p \in s.permissions : p.name = name

\* the rows a GetByID / GetByName query matches: none or one
RoleGetByID(s, id) == { r \in s.roles : r.id = id }

RoleGetByName(s, name) == { r \in s.roles : r.name = name }

PermissionGetByID(s, id) == { p \in s.permissions : p.id = id }

PermissionGetByName(s, name) == { p \in s.permissions : p.name = name }

\* userRoleRepository.HasRole
UserRoleHasRole(s, userID, roleID) ==
    \E ur \in s.userRoles : ur.userID = userID /\ ur.roleID = roleID

\* userRoleRepository.HasRoleByName: user_roles joined with roles on the edge
HasRoleByName(s, userID, roleName) ==
    \E ur \in s.userRoles :
        /\ ur.userID = userID
        /\ \E r \in s.roles : r.id = ur.roleID /\ r.name = roleName

\* rolePermissionRepository.HasPermission
RolePermissionHasPermission(s, roleID, permissionID) ==
    \E rp \in s.rolePermissions :
        rp.roleID = roleID /\ rp.permissionID = permissionID

\* userRoleRepository.AssignRole: SetNillableAssignedBy is given a non-nil
\* pointer, so the column is always written, also when the value is 0
AssignRole(s, userID, roleID, assignedBy, t) ==
    UserRoleCreateSave(s, userID, roleID, assignedBy, t)

\* rolePermissionRepository.AssignPermission: assigned_by is written only
\* when it is not 0
AssignPermission(s, roleID, permissionID, assignedBy, t) ==
    RolePermissionCreateSave(s, roleID, permissionID,
                             IF assignedBy # 0 THEN assignedBy ELSE NULL, t)

\* userRoleRepository.RemoveRole: a bulk delete, which reports no error when
\* it matches no row
RemoveRole(s, userID, roleID) ==
    Result([ s EXCEPT !.userRoles =
                 { ur \in @ : ~(ur.userID = userID /\ ur.roleID = roleID) } ], nil)

\* rolePermissionRepository.RemovePermission
RemovePermission(s, roleID, permissionID) ==
    Result([ s EXCEPT !.rolePermissions =
                 { rp \in @ : ~(rp.roleID = roleID /\ rp.permissionID = permissionID) } ],
           nil)

\* CheckUserPermission with the filter on the action left out
CheckUserPermissionAnyAction(s, userID, resource, action) ==
    \E p \in s.permissions :
        /\ p.resource = resource
        /\ \E rp \in s.rolePermissions :
              /\ rp.permissionID = p.id
              /\ \E r \in s.roles :
                    /\ r.id = rp.roleID
                    /\ \E ur \in s.userRoles :
                          ur.roleID = r.id /\ ur.userID = userID

\* rolePermissionRepository.CheckUserPermission: permissions filtered by
\* resource and action, joined to role_permissions, roles and user_roles
CheckUserPermission(s, userID, resource, action) ==
    \E p \in s.permissions :
        /\ p.resource = resource
        /\ p.action = action
        /\ \E rp \in s.rolePermissions :
              /\ rp.permissionID = p.id
              /\ \E r \in s.roles :
                    /\ r.id = rp.roleID
                    /\ \E ur \in s.userRoles :
                          ur.roleID = r.id /\ ur.userID = userID

\* the role-permission and user-role rows that lead from a user to a
\* permission
PermissionChains(s, userID, p) ==
    { << rp, ur >> \in s.rolePermissions \X s.userRoles :
        /\ rp.permissionID = p.id
        /\ ur.roleID = rp.roleID
        /\ ur.userID = userID
        /\ \E r \in s.roles : r.id = rp.roleID }

\* rolePermissionRepository.GetUserPermissions: the rows of permissions, by
\* id, that have a role-permission row whose role has a user-role row of
\* the user.  The condition is a test on each permission row, so a row is
\* selected once however many roles lead to it
RECURSIVE UserPermissionsFrom(_, _, _)
UserPermissionsFrom(s, userID, id) ==
    IF id >= s.nextID.permission
    THEN << >>
    ELSE LET rows == { p \in s.permissions :
                         p.id = id /\ PermissionChains(s, userID, p) # {} }
         IN (IF rows = {} THEN << >> ELSE << CHOOSE p \in rows : TRUE >>)
                \o UserPermissionsFrom(s, userID, id + 1)

\* permissionRepository.GetSystemPermissions: the system rows by ascending
\* name.  Only the bootstrap creates system rows, so their names are names
\* of the catalog
RECURSIVE SystemPermissionsFrom(_, _)
SystemPermissionsFrom(s, i) ==
    IF i > Len(NameOrder)
    THEN << >>
    ELSE LET rows == { p \in s.permissions : p.isSystem /\ p.name = NameOrder[i] }
         IN (IF rows = {} THEN << >> ELSE << CHOOSE p \in rows : TRUE >>)
                \o SystemPermissionsFrom(s, i + 1)

GetSystemPermissions(s) == SystemPermissionsFrom(s, 1)

(***************************************************************************)
(* rbacService.                                                            *)
(***************************************************************************)
\* CreateRole without the check of the name: the insert alone
CreateRoleUnchecked(s, name, isSystem) == RoleCreateSave(s, name, isSystem)
CreateRole(s, name, isSystem) ==
    IF RoleExistsByName(s, name)
    THEN Result(s, ErrRoleAlreadyExists)
    ELSE RoleCreateSave(s, name, isSystem)

\* DeleteRole without the test of is_system
DeleteRoleUnprotected(s, id) ==
    IF RoleGetByID(s, id) = {}
    THEN Result(s, ErrRoleNotFound)
    ELSE RoleDeleteOneID(s, id)

DeleteRole(s, id) ==
    IF RoleGetByID(s, id) = {}
    THEN Result(s, ErrRoleNotFound)
    ELSE IF (CHOOSE r \in RoleGetByID(s, id) : TRUE).isSystem
         THEN Result(s, ErrSystemRoleCannotDelete)
         ELSE RoleDeleteOneID(s, id)

CreatePermission(s, name, resource, action, isSystem) ==
    IF PermissionExistsByName(s, name)
    THEN Result(s, ErrPermissionAlreadyExists)
    ELSE PermissionCreateSave(s, name, resource, action, isSystem)

DeletePermission(s, id) ==
    IF PermissionGetByID(s, id) = {}
    THEN Result(s, ErrPermissionNotFound)
    ELSE IF (CHOOSE p \in PermissionGetByID(s, id) : TRUE).isSystem
         THEN Result(s, ErrSystemPermissionCannotDelete)
         ELSE PermissionDeleteOneID(s, id)

\* UpdateRole: the role is looked up first; is_system is not tested
UpdateRole(s, id, displayName, description) ==
    IF RoleGetByID(s, id) = {}
    THEN Result(s, ErrRoleNotFound)
    ELSE RoleUpdateOneID(s, id, displayName, description)

UpdatePermission(s, id, displayName, description) ==
    IF PermissionGetByID(s, id) = {}
    THEN Result(s, ErrPermissionNotFound)
    ELSE PermissionUpdateOneID(s, id, displayName, description)

\* AssignRoleToUser without the existence check: the insert runs into the
\* unique index
AssignRoleToUserUnchecked(s, userID, roleID, assignerID, t) ==
    AssignRole(s, userID, roleID, assignerID, t)

AssignRoleToUser(s, userID, roleID, assignerID, t) ==
    IF UserRoleHasRole(s, userID, roleID)
    THEN Result(s, ErrUserRoleAlreadyExists)
    ELSE AssignRole(s, userID, roleID, assignerID, t)

RemoveRoleFromUser(s, userID, roleID) == RemoveRole(s, userID, roleID)

HasRole(s, userID, roleName) == HasRoleByName(s, userID, roleName)

AssignPermissionToRole(s, roleID, permissionID, assignerID, t) ==
    IF RolePermissionHasPermission(s, roleID, permissionID)
    THEN Result(s, ErrRolePermissionAlreadyExists)
    ELSE AssignPermission(s, roleID, permissionID, assignerID, t)

RemovePermissionFromRole(s, roleID, permissionID) ==
    RemovePermission(s, roleID, permissionID)

HasPermission(s, userID, resource, action) ==
    CheckUserPermission(s, userID, resource, action)

\* GetUserPermissions as a join: a permission that several roles lead to is
\* returned once more
GetUserPermissionsJoined(s, userID) ==
    LET once == UserPermissionsFrom(s, userID, 1)
        MoreThanOnce(p) == Cardinality(PermissionChains(s, userID, p)) > 1
    IN once \o SelectSeq(once, MoreThanOnce)

\* rbacService.GetUserPermissions
GetUserPermissions(s, userID) == UserPermissionsFrom(s, userID, 1)

GetRoleByName(s, name) ==
    IF RoleGetByName(s, name) = {} THEN ErrRoleNotFound ELSE nil

GetPermissionByName(s, name) ==
    IF PermissionGetByName(s, name) = {} THEN ErrPermissionNotFound ELSE nil

\* createSystemRoles: the loop from the i-th role on
RECURSIVE createSystemRolesFrom(_, _)
createSystemRolesFrom(s, i) ==
    IF i > Len(systemRoles)
    THEN Result(s, nil)
    ELSE IF RoleExistsByName(s, systemRoles[i])
         THEN createSystemRolesFrom(s, i + 1)
         ELSE LET r == CreateRole(s, systemRoles[i], TRUE)
              IN IF r.err # nil THEN r ELSE createSystemRolesFrom(r.s, i + 1)

createSystemRoles(s) == createSystemRolesFrom(s, 1)

\* createSystemPermissions: the loop from the i-th permission on
RECURSIVE createSystemPermissionsFrom(_, _)
createSystemPermissionsFrom(s, i) ==
    IF i > Len(systemPermissions)
    THEN Result(s, nil)
    ELSE IF PermissionExistsByName(s, systemPermissions[i].name)
         THEN createSystemPermissionsFrom(s, i + 1)
         ELSE LET r == CreatePermission(s, systemPermissions[i].name,
                                        systemPermissions[i].resource,
                                        systemPermissions[i].action, TRUE)
              IN IF r.err # nil THEN r ELSE createSystemPermissionsFrom(r.s, i + 1)

createSystemPermissions(s) == createSystemPermissionsFrom(s, 1)

\* the first loop of assignPermissionsToRoles when it is skipped for an admin
\* role that holds a permission already
RECURSIVE assignAdminFromOnce(_, _, _, _, _)
assignAdminFromOnce(s, adminID, perms, i, t) ==
    IF i > Len(perms) \/ (i = 1 /\ \E rp \in s.rolePermissions : rp.roleID = adminID)
    THEN Result(s, nil)
    ELSE LET r == AssignPermission(s, adminID, perms[i].id, 0, t)
         IN IF r.err # nil /\ r.err # ErrRolePermissionAlreadyExists
            THEN r
            ELSE assignAdminFromOnce(r.s, adminID, perms, i + 1, t)

\* assignPermissionsToRoles, first loop: every system permission to admin.
\* The rows carry no assigner (AssignedBy is left 0)
RECURSIVE assignAdminFrom(_, _, _, _, _)
assignAdminFrom(s, adminID, perms, i, t) ==
    IF i > Len(perms)
    THEN Result(s, nil)
    ELSE IF RolePermissionHasPermission(s, adminID, perms[i].id)
         THEN assignAdminFrom(s, adminID, perms, i + 1, t)
         ELSE LET r == AssignPermission(s, adminID, perms[i].id, 0, t)
              IN IF r.err # nil /\ r.err # ErrRolePermissionAlreadyExists
                 THEN r
                 ELSE assignAdminFrom(r.s, adminID, perms, i + 1, t)

\* assignPermissionsToRoles, second loop: the listed permissions to user; a
\* listed permission that is not found is skipped
RECURSIVE assignUserFrom(_, _, _, _)
assignUserFrom(s, userRoleID, i, t) ==
    IF i > Len(userPermissions)
    THEN Result(s, nil)
    ELSE IF GetPermissionByName(s, userPermissions[i]) # nil
         THEN assignUserFrom(s, userRoleID, i + 1, t)
         ELSE LET pid == (CHOOSE p \in PermissionGetByName(s, userPermissions[i]) : TRUE).id
              IN IF RolePermissionHasPermission(s, userRoleID, pid)
                 THEN assignUserFrom(s, userRoleID, i + 1, t)
                 ELSE LET r == AssignPermission(s, userRoleID, pid, 0, t)
                      IN IF r.err # nil /\ r.err # ErrRolePermissionAlreadyExists
                         THEN r
                         ELSE assignUserFrom(r.s, userRoleID, i + 1, t)

assignPermissionsToRoles(s, t) ==
    IF GetRoleByName(s, RoleNameAdmin) # nil
    THEN Result(s, ErrRoleNotFound)
    ELSE LET adminID == (CHOOSE r \in RoleGetByName(s, RoleNameAdmin) : TRUE).id
             a == assignAdminFrom(s, adminID, GetSystemPermissions(s), 1, t)
         IN IF a.err # nil
            THEN a
            ELSE IF GetRoleByName(a.s, RoleNameUser) # nil
                 THEN Result(a.s, ErrRoleNotFound)
                 ELSE assignUserFrom(a.s,
                          (CHOOSE r \in RoleGetByName(a.s, RoleNameUser) : TRUE).id,
                          1, t)

\* InitializeSystemData that first clears table role_permissions, so that
\* the roles hold the assignments of the catalog and no other
InitializeSystemDataReset(s, t) ==
    LET r1 == createSystemRoles([ s EXCEPT !.rolePermissions = {} ])
    IN IF r1.err # nil
       THEN r1
       ELSE LET r2 == createSystemPermissions(r1.s)
            IN IF r2.err # nil THEN r2 ELSE assignPermissionsToRoles(r2.s, t)

InitializeSystemData(s, t) ==
    LET r1 == createSystemRoles(s)
    IN IF r1.err # nil
       THEN r1
       ELSE LET r2 == createSystemPermissions(r1.s)
            IN IF r2.err # nil THEN r2 ELSE assignPermissionsToRoles(r2.s, t)

(***************************************************************************)
(* security: the Argon2id password hasher.  A string is the sequence of    *)
(* its characters and a character is its code point; the characters of the *)
(* base64 alphabet are written 1000 + the value they stand for, the raw    *)
(* encoding being a one-to-one code without padding and without '$'.       *)
(***************************************************************************)
DefaultPasswordConfig ==
    [ Memory |-> 64 * 1024, Iterations |-> 3, Parallelism |-> 2,
      SaltLength |-> 16, KeyLength |-> 32 ]

\* the configurations HashPasswordWithConfig is called with
PasswordConfigs ==
    << DefaultPasswordConfig,
       [ Memory |-> 8, Iterations |-> 1, Parallelism |-> 1,
         SaltLength |-> 0, KeyLength |-> 1 ],
       [ Memory |-> 0, Iterations |-> 19, Parallelism |-> 255,
         SaltLength |-> 1, KeyLength |-> 4 ],
       [ Memory |-> 65536, Iterations |-> 0, Parallelism |-> 2,
         SaltLength |-> 16, KeyLength |-> 32 ],
       [ Memory |-> 65536, Iterations |-> 3, Parallelism |-> 0,
         SaltLength |-> 16, KeyLength |-> 32 ],
       [ Memory |-> 65536, Iterations |-> 3, Parallelism |-> 2,
         SaltLength |-> 16, KeyLength |-> 0 ] >>

PasswordInputs == << "", "secret", "Secret" >>

\* the values of the bytes rand.Read fills a salt with
SaltBytes == { 0, 1 }

\* generateRandomBytes(n): the salts of n bytes the model draws
generateRandomBytes(n) == { [ i \in 1 .. n |-> b ] : b \in SaltBytes }

\* a call that does not return
Panic == [ panic |-> TRUE, key |-> << >> ]

\* the key an ideal key-derivation function gives: a number that differs
\* for every two different inputs among the inputs of the model
DerivedKeyByte(password, salt, time, memory, threads, keyLen) ==
    LET pw == CHOOSE i \in 1 .. Len(PasswordInputs) : PasswordInputs[i] = password
        sl == IF salt = << >> THEN 0 ELSE 2 * Len(salt) + salt[1]
        matching == { i \in 1 .. Len(PasswordConfigs) :
                        /\ PasswordConfigs[i].Iterations = time
                        /\ PasswordConfigs[i].Memory = memory
                        /\ PasswordConfigs[i].Parallelism = threads
                        /\ PasswordConfigs[i].KeyLength = keyLen }
        cf == IF matching = {} THEN 0
              ELSE CHOOSE i \in matching : \A j \in matching : i <= j
    IN (pw * 40 + sl) * 10 + cf

\* argon2.IDKey: panics when the number of rounds or the degree of
\* parallelism is below 1, and returns keyLen bytes otherwise.  For a key
\* of length 0 the library derives from a BLAKE2b digest of size 0, which
\* BLAKE2b does not construct: the call panics or returns the empty key
IDKey(password, salt, time, memory, threads, keyLen) ==
    IF time < 1 \/ threads < 1
    THEN { Panic }
    ELSE IF keyLen = 0
         THEN { Panic, [ panic |-> FALSE, key |-> << >> ] }
         ELSE { [ panic |-> FALSE,
                  key |-> [ i \in 1 .. keyLen |->
                              DerivedKeyByte(password, salt, time, memory,
                                             threads, keyLen) ] ] }

\* base64.RawStdEncoding
EncodeToString(bytes) == [ i \in 1 .. Len(bytes) |-> 1000 + bytes[i] ]

DecodeString(str) ==
    IF \E i \in 1 .. Len(str) : str[i] < 1000
    THEN [ bytes |-> << >>, err |-> "illegal base64 data" ]
    ELSE [ bytes |-> [ i \in 1 .. Len(str) |-> str[i] - 1000 ], err |-> nil ]

\* the decimal digits of n, as %d prints an unsigned number
RECURSIVE Itoa(_)
Itoa(n) == IF n < 10 THEN << 48 + n >> ELSE Itoa(n \div 10) \o << 48 + (n % 10) >>

\* the number that a sequence of decimal digits reads as
RECURSIVE Atoi(_)
Atoi(ds) ==
    IF ds = << >> THEN 0 ELSE 10 * Atoi(SubSeq(ds, 1, Len(ds) - 1)) + (ds[Len(ds)] - 48)

\* the digits a string begins with
RECURSIVE LeadingDigits(_)
LeadingDigits(str) ==
    IF str # << >> /\ Head(str) \in 48 .. 57
    THEN << Head(str) >> \o LeadingDigits(Tail(str))
    ELSE << >>

\* fmt.Sscanf(str, format): a format is a sequence of characters and of
\* verbs; the verb %d is written as minus the width in bits of the integer
\* it is stored in.  A literal must match, a verb needs a digit and a value
\* that fits; what is left of str after the format is ignored
RECURSIVE Sscanf(_, _, _)
Sscanf(str, format, read) ==
    IF format = << >>
    THEN [ vals |-> read, err |-> nil ]
    ELSE IF Head(format) < 0
         THEN LET ds == LeadingDigits(str)
              IN IF ds = << >>
                 THEN [ vals |-> read, err |-> "expected integer" ]
                 ELSE IF Head(format) = -8 /\ Atoi(ds) > 255
                      THEN [ vals |-> read, err |-> "integer overflow" ]
                      ELSE Sscanf(SubSeq(str, Len(ds) + 1, Len(str)), Tail(format),
                                  Append(read, Atoi(ds)))
         ELSE IF str # << >> /\ Head(str) = Head(format)
              THEN Sscanf(Tail(str), Tail(format), read)
              ELSE [ vals |-> read, err |-> "input does not match format" ]

\* strings.Split(str, "$"): the pieces between the characters '$' (36)
RECURSIVE SplitDollar(_)
SplitDollar(str) ==
    IF \A i \in 1 .. Len(str) : str[i] # 36
    THEN << str >>
    ELSE LET k == CHOOSE i \in 1 .. Len(str) :
                      str[i] = 36 /\ \A j \in 1 .. (i - 1) : str[j] # 36
         IN << SubSeq(str, 1, k - 1) >> \o SplitDollar(SubSeq(str, k + 1, Len(str)))

\* HashPasswordWithConfig with the salt generateRandomBytes returned:
\* fmt.Sprintf("$argon2id$v=%d$m=%d,t=%d,p=%d$%s$%s", argon2.Version (19), ...)
HashPasswordWithConfig(password, cfg, salt) ==
    { IF hash.panic
      THEN [ panic |-> TRUE, encoded |-> << >> ]
      ELSE [ panic |-> FALSE,
             encoded |-> << 36, 97, 114, 103, 111, 110, 50, 105, 100, 36, 118, 61 >>
                           \o Itoa(19)
                           \o << 36, 109, 61 >> \o Itoa(cfg.Memory)
                           \o << 44, 116, 61 >> \o Itoa(cfg.Iterations)
                           \o << 44, 112, 61 >> \o Itoa(cfg.Parallelism)
                           \o << 36 >> \o EncodeToString(salt)
                           \o << 36 >> \o EncodeToString(hash.key) ] :
      hash \in IDKey(password, salt, cfg.Iterations, cfg.Memory, cfg.Parallelism,
                     cfg.KeyLength) }

NoPasswordConfig ==
    [ Memory |-> 0, Iterations |-> 0, Parallelism |-> 0, SaltLength |-> 0,
      KeyLength |-> 0 ]

DecodeError(e) ==
    [ config |-> NoPasswordConfig, salt |-> << >>, hash |-> << >>, err |-> e ]

\* decodeHash that takes the key length from the default configuration
decodeHashDefaultLength(encodedHash) ==
    LET vals == SplitDollar(encodedHash)
        v == Sscanf(vals[3], << 118, 61, -64 >>, << >>)
        m == Sscanf(vals[4], << 109, 61, -32, 44, 116, 61, -32, 44, 112, 61, -8 >>, << >>)
        salt == DecodeString(vals[5])
        hash == DecodeString(vals[6])
    IN IF Len(vals) # 6 THEN DecodeError("invalid hash format")
       ELSE IF v.err # nil THEN DecodeError(v.err)
       ELSE IF v.vals[1] # 19 THEN DecodeError("incompatible version of argon2")
       ELSE IF m.err # nil THEN DecodeError(m.err)
       ELSE IF salt.err # nil THEN DecodeError(salt.err)
       ELSE IF hash.err # nil THEN DecodeError(hash.err)
       ELSE [ config |-> [ Memory |-> m.vals[1], Iterations |-> m.vals[2],
                           Parallelism |-> m.vals[3],
                           SaltLength |-> DefaultPasswordConfig.SaltLength,
                           KeyLength |-> DefaultPasswordConfig.KeyLength ],
              salt |-> salt.bytes, hash |-> hash.bytes, err |-> nil ]

decodeHash(encodedHash) ==
    LET vals == SplitDollar(encodedHash)
        v == Sscanf(vals[3], << 118, 61, -64 >>, << >>)
        m == Sscanf(vals[4], << 109, 61, -32, 44, 116, 61, -32, 44, 112, 61, -8 >>, << >>)
        salt == DecodeString(vals[5])
        hash == DecodeString(vals[6])
    IN IF Len(vals) # 6 THEN DecodeError("invalid hash format")
       ELSE IF v.err # nil THEN DecodeError(v.err)
       ELSE IF v.vals[1] # 19 THEN DecodeError("incompatible version of argon2")
       ELSE IF m.err # nil THEN DecodeError(m.err)
       ELSE IF salt.err # nil THEN DecodeError(salt.err)
       ELSE IF hash.err # nil THEN DecodeError(hash.err)
       ELSE [ config |-> [ Memory |-> m.vals[1], Iterations |-> m.vals[2],
                           Parallelism |-> m.vals[3],
                           SaltLength |-> Len(salt.bytes),
                           KeyLength |-> Len(hash.bytes) ],
              salt |-> salt.bytes, hash |-> hash.bytes, err |-> nil ]

\* VerifyPassword: subtle.ConstantTimeCompare is 1 iff the two keys have the
\* same length and the same bytes
VerifyPassword(password, encodedHash) ==
    LET d == decodeHash(encodedHash)
    IN IF d.err # nil
       THEN { [ panic |-> FALSE, valid |-> FALSE, err |-> d.err ] }
       ELSE { IF other.panic
              THEN [ panic |-> TRUE, valid |-> FALSE, err |-> nil ]
              ELSE [ panic |-> FALSE, valid |-> (d.hash = other.key), err |-> nil ] :
              other \in IDKey(password, d.salt, d.config.Iterations, d.config.Memory,
                              d.config.Parallelism, d.config.KeyLength) }

\* the outcome of the last call on the hasher
NoHash ==
    [ op |-> "none", password |-> "", config |-> NoPasswordConfig, salt |-> << >>,
      panic |-> FALSE, encoded |-> << >>, tried |-> "", valid |-> FALSE, err |-> nil ]

\* HashPasswordWithConfig is called
HashPasswordCall(password, cfg) ==
    /\ \E salt \in generateRandomBytes(cfg.SaltLength) :
          \E h \in HashPasswordWithConfig(password, cfg, salt) :
             resp' = [ NoHash EXCEPT !.op = "HashPassword", !.password = password,
                                     !.config = cfg, !.salt = salt,
                                     !.panic = h.panic, !.encoded = h.encoded ]
    /\ UNCHANGED << storeVars, ret, now, config, issued, calls >>

\* VerifyPassword is called on the string the last HashPassword returned
VerifyPasswordCall(password) ==
    /\ resp.op \in { "HashPassword", "VerifyPassword" }
    /\ resp.op = "HashPassword" => ~ resp.panic
    /\ \E v \in VerifyPassword(password, resp.encoded) :
          resp' = [ resp EXCEPT !.op = "VerifyPassword", !.tried = password,
                                !.panic = v.panic, !.valid = v.valid, !.err = v.err ]
    /\ UNCHANGED << storeVars, ret, now, config, issued, calls >>

(***************************************************************************)
(* userService.                                                            *)
(***************************************************************************)
\* entity.UserStatus, and its conversion to and from the enum of the schema;
\* a value outside the enumeration converts to active
UserStatusActive == 1
UserStatusInactive == 2
UserStatusBanned == 3

domainUserStatusToEntStatus(status) ==
    CASE status = UserStatusActive -> "active"
      [] status = UserStatusInactive -> "inactive"
      [] status = UserStatusBanned -> "banned"
      [] OTHER -> "active"

entUserToDomainUser(entUser) ==
    [ entUser EXCEPT !.status =
        CASE @ = "active" -> UserStatusActive
          [] @ = "inactive" -> UserStatusInactive
          [] @ = "banned" -> UserStatusBanned
          [] OTHER -> UserStatusActive ]

\* userRepository: GetByID and GetByUsername return the row as an entity, or
\* ErrUserNotFound (the empty set)
UserGetByID(s, id) == { entUserToDomainUser(u) : u \in { r \in s.users : r.id = id } }

UserGetByUsername(s, username) ==
    { entUserToDomainUser(u) : u \in { r \in s.users : r.username = username } }

\* userRepository.Update writes every column of the entity to the row of its
\* id and returns the error of ent as it is
UserUpdate(s, u) ==
    IF u.id \notin IDs(s.users)
    THEN Result(s, EntNotFound)
    ELSE IF \E o \in s.users :
               o.id # u.id /\ (o.username = u.username \/ o.email = u.email)
         THEN Result(s, ConstraintError)
         ELSE Result([ s EXCEPT !.users =
                         { r \in @ : r.id # u.id }
                            \cup { [ u EXCEPT !.status =
                                       domainUserStatusToEntStatus(@) ] } ], nil)

\* userRepository.Delete: a row that a user_roles row names as its user is
\* kept by the foreign key; the rows that name it as assigner lose the
\* reference (the edge assigner is optional)
UserDelete(s, id) ==
    IF id \notin IDs(s.users)
    THEN Result(s, ErrUserNotFound)
    ELSE IF \E ur \in s.userRoles : ur.userID = id
         THEN Result(s, ConstraintError)
         ELSE Result([ s EXCEPT
                 !.users = { r \in @ : r.id # id },
                 !.userRoles =
                     { IF ur.assignedBy = id THEN [ ur EXCEPT !.assignedBy = NULL ]
                       ELSE ur : ur \in @ },
                 !.rolePermissions =
                     { IF rp.assignedBy = id THEN [ rp EXCEPT !.assignedBy = NULL ]
                       ELSE rp : rp \in @ } ], nil)

\* HashPassword: the default configuration; salt is the salt it draws
HashPassword(password, salt) ==
    HashPasswordWithConfig(password, DefaultPasswordConfig, salt)

\* CreateUserWithRole in one transaction: a failure to find the role or to
\* assign it undoes the insert of the user and is returned
CreateUserWithRoleAtomic(s, username, email, password, salt, roleName, assignerID, t) ==
    IF \E u \in s.users : u.username = username
    THEN Result(s, ErrUserAlreadyExists)
    ELSE IF \E u \in s.users : u.email = email
         THEN Result(s, ErrUserAlreadyExists)
         ELSE LET hashedPassword ==
                      (CHOOSE h \in HashPassword(password, salt) : TRUE).encoded
                  c == UserCreateSave(s, username, email, hashedPassword,
                           domainUserStatusToEntStatus(UserStatusActive))
              IN IF c.err # nil
                 THEN c
                 ELSE IF GetRoleByName(c.s, roleName) # nil
                      THEN Result(s, ErrRoleNotFound)
                      ELSE LET a == AssignRoleToUser(c.s, s.nextID.user,
                                      (CHOOSE r \in RoleGetByName(c.s, roleName) : TRUE).id,
                                      assignerID, t)
                           IN IF a.err # nil THEN Result(s, a.err) ELSE a

\* CreateUserWithRole: once the user row is saved, a failure to find the
\* role or to assign it is logged and the user is returned without error
CreateUserWithRole(s, username, email, password, salt, roleName, assignerID, t) ==
    IF \E u \in s.users : u.username = username
    THEN Result(s, ErrUserAlreadyExists)
    ELSE IF \E u \in s.users : u.email = email
         THEN Result(s, ErrUserAlreadyExists)
         ELSE LET hashedPassword ==
                      (CHOOSE h \in HashPassword(password, salt) : TRUE).encoded
                  c == UserCreateSave(s, username, email, hashedPassword,
                           domainUserStatusToEntStatus(UserStatusActive))
              IN IF c.err # nil
                 THEN c
                 ELSE IF GetRoleByName(c.s, roleName) # nil
                      THEN Result(c.s, nil)
                      ELSE Result(AssignRoleToUser(c.s, s.nextID.user,
                                      (CHOOSE r \in RoleGetByName(c.s, roleName) : TRUE).id,
                                      assignerID, t).s, nil)

CreateUser(s, username, email, password, salt, t) ==
    CreateUserWithRole(s, username, email, password, salt, RoleNameUser, 0, t)

DeleteUser(s, id) == UserDelete(s, id)

IsActive(u) == u.status = UserStatusActive

IsBanned(u) == u.status = UserStatusBanned

\* the outcomes of ValidateUser: the user it returns, or its error, or the
\* panic of the key derivation
Validated(user, e) == [ panic |-> FALSE, user |-> user, err |-> e ]

\* ValidateUser that looks at the status of the user before the password
ValidateUserStatusFirst(s, username, password) ==
    LET found == UserGetByUsername(s, username)
    IN IF found = {}
       THEN { Validated({}, ErrInvalidCredentials) }
       ELSE LET user == CHOOSE u \in found : TRUE
            IN IF IsBanned(user)
               THEN { Validated({}, ErrUserBanned) }
               ELSE IF ~ IsActive(user)
                    THEN { Validated({}, ErrUserInactive) }
                    ELSE { IF v.panic
                           THEN [ panic |-> TRUE, user |-> {}, err |-> nil ]
                           ELSE IF v.err # nil \/ ~ v.valid
                                THEN Validated({}, ErrInvalidCredentials)
                                ELSE Validated({ user }, nil) :
                           v \in VerifyPassword(password, user.password) }

\* ValidateUser: every error of the lookup and every error or refusal of
\* VerifyPassword is ErrInvalidCredentials; the status is looked at after
\* the password
ValidateUser(s, username, password) ==
    LET found == UserGetByUsername(s, username)
    IN IF found = {}
       THEN { Validated({}, ErrInvalidCredentials) }
       ELSE LET user == CHOOSE u \in found : TRUE
            IN { IF v.panic
                 THEN [ panic |-> TRUE, user |-> {}, err |-> nil ]
                 ELSE IF v.err # nil
                      THEN Validated({}, ErrInvalidCredentials)
                      ELSE IF ~ v.valid
                           THEN Validated({}, ErrInvalidCredentials)
                           ELSE IF IsBanned(user)
                                THEN Validated({}, ErrUserBanned)
                                ELSE IF ~ IsActive(user)
                                     THEN Validated({}, ErrUserInactive)
                                     ELSE Validated({ user }, nil) :
                 v \in VerifyPassword(password, user.password) }

\* ActivateUser, DeactivateUser and BanUser: the row is read, the status of
\* the entity is set and the whole entity is written back
SetStatus(s, id, status) ==
    LET found == UserGetByID(s, id)
    IN IF found = {}
       THEN Result(s, ErrUserNotFound)
       ELSE UserUpdate(s, [ (CHOOSE u \in found : TRUE) EXCEPT !.status = status ])

ActivateUser(s, id) == SetStatus(s, id, UserStatusActive)

DeactivateUser(s, id) == SetStatus(s, id, UserStatusInactive)

BanUser(s, id) == SetStatus(s, id, UserStatusBanned)

(***************************************************************************)
(* JWTManager.  A token is its three segments: the algorithm of the        *)
(* header, the claims, and the signature, which is the key, the algorithm  *)
(* and the claims it was computed over.                                    *)
(***************************************************************************)
ErrInvalidToken == "invalid token"
ErrExpiredToken == "token has expired"
ErrTokenClaims == "invalid token claims"

\* the ticks of one unit of jwt.TimePrecision (a second): NewNumericDate
\* truncates a time to a multiple of it
TimePrecision == 2

Minute == 60 * TimePrecision

Truncate(t) == (t \div TimePrecision) * TimePrecision

\* time.Time.Unix: whole seconds
Unix(t) == t \div TimePrecision

DefaultTokenConfig ==
    [ SecretKey |-> "your-secret-key-change-this-in-production",
      AccessTokenTTL |-> 15 * Minute,
      RefreshTokenTTL |-> 7 * 24 * 60 * Minute,
      Issuer |-> "nebula-live" ]

\* the configurations the manager is constructed with
TokenConfigs ==
    { [ SecretKey |-> "secret", AccessTokenTTL |-> 3, RefreshTokenTTL |-> 4,
        Issuer |-> "nebula-live" ] }

IdentityInputs ==
    { [ userID |-> 1, username |-> "alice", email |-> "alice@example.com" ],
      [ userID |-> 2, username |-> "bob", email |-> "bob@example.com" ] }

\* the algorithms of *jwt.SigningMethodHMAC
SigningMethodHMAC == { "HS256", "HS384", "HS512" }

SignedString(key, alg, claims) == [ key |-> key, alg |-> alg, claims |-> claims ]

generateToken(cfg, userID, username, email, expiresAt, t) ==
    LET claims == [ user_id |-> userID, username |-> username, email |-> email,
                    exp |-> Truncate(expiresAt), iat |-> Truncate(t),
                    nbf |-> Truncate(t), iss |-> cfg.Issuer,
                    sub |-> << "user_", userID >> ]
    IN [ segments |-> 3, alg |-> "HS256", claims |-> claims,
         sig |-> SignedString(cfg.SecretKey, "HS256", claims) ]

\* ValidateToken that still accepts a token at the tick of its expiry
ValidateTokenInclusive(cfg, tok, t) ==
    IF tok.segments # 3 \/ tok.alg \notin SigningMethodHMAC
       \/ tok.sig # SignedString(cfg.SecretKey, tok.alg, tok.claims)
    THEN [ claims |-> {}, err |-> ErrInvalidToken ]
    ELSE IF ~(t <= tok.claims.exp)
         THEN [ claims |-> {}, err |-> ErrExpiredToken ]
         ELSE IF t < tok.claims.nbf
              THEN [ claims |-> {}, err |-> ErrInvalidToken ]
              ELSE [ claims |-> { tok.claims }, err |-> nil ]

\* ValidateToken: jwt.ParseWithClaims refuses a string that is not three
\* segments, an algorithm that is not HMAC and a signature that does not
\* verify, then validates the claims: exp (now must be before it) and nbf
\* (now must not be before it).  An error that includes ErrTokenExpired is
\* ErrExpiredToken, every other error is ErrInvalidToken
ValidateToken(cfg, tok, t) ==
    IF tok.segments # 3 \/ tok.alg \notin SigningMethodHMAC
       \/ tok.sig # SignedString(cfg.SecretKey, tok.alg, tok.claims)
    THEN [ claims |-> {}, err |-> ErrInvalidToken ]
    ELSE IF ~(t < tok.claims.exp)
         THEN [ claims |-> {}, err |-> ErrExpiredToken ]
         ELSE IF t < tok.claims.nbf
              THEN [ claims |-> {}, err |-> ErrInvalidToken ]
              ELSE [ claims |-> { tok.claims }, err |-> nil ]

GenerateTokenPair(cfg, userID, username, email, t) ==
    [ AccessToken |-> generateToken(cfg, userID, username, email,
                                    t + cfg.AccessTokenTTL, t),
      RefreshToken |-> generateToken(cfg, userID, username, email,
                                     t + cfg.RefreshTokenTTL, t),
      ExpiresAt |-> Unix(t + cfg.AccessTokenTTL),
      TokenType |-> "Bearer" ]

ErrInvalidRefreshToken == "invalid refresh token"

\* RefreshToken that passes the email of the claims as the username
RefreshTokenSwapped(cfg, tok, t) ==
    LET v == ValidateToken(cfg, tok, t)
    IN IF v.err # nil
       THEN [ pair |-> {}, err |-> ErrInvalidRefreshToken, cause |-> v.err ]
       ELSE [ pair |-> { GenerateTokenPair(cfg, tok.claims.user_id,
                                           tok.claims.email, tok.claims.email, t) },
              err |-> nil, cause |-> nil ]

\* RefreshToken that re-issues from an expired token as well
RefreshTokenLenient(cfg, tok, t) ==
    LET v == ValidateToken(cfg, tok, t)
    IN IF v.err # nil /\ v.err # ErrExpiredToken
       THEN [ pair |-> {}, err |-> ErrInvalidRefreshToken, cause |-> v.err ]
       ELSE [ pair |-> { GenerateTokenPair(cfg, tok.claims.user_id,
                                           tok.claims.username, tok.claims.email, t) },
              err |-> nil, cause |-> nil ]

\* RefreshToken that takes only tokens with the lifetime of a refresh token
RefreshTokenRefreshOnly(cfg, tok, t) ==
    LET v == ValidateToken(cfg, tok, t)
    IN IF v.err # nil \/ tok.claims.exp - tok.claims.iat < cfg.RefreshTokenTTL
       THEN [ pair |-> {}, err |-> ErrInvalidRefreshToken, cause |-> v.err ]
       ELSE LET claims == CHOOSE c \in v.claims : TRUE
            IN [ pair |-> { GenerateTokenPair(cfg, claims.user_id, claims.username,
                                              claims.email, t) },
                 err |-> nil, cause |-> nil ]

\* RefreshToken that looks the user of the claims up and re-issues for an
\* active user only
RefreshTokenActiveOnly(cfg, tok, t) ==
    LET v == ValidateToken(cfg, tok, t)
    IN IF v.err # nil
          \/ ~ \E u \in users : u.id = tok.claims.user_id /\ u.status = "active"
       THEN [ pair |-> {}, err |-> ErrInvalidRefreshToken, cause |-> v.err ]
       ELSE LET claims == CHOOSE c \in v.claims : TRUE
            IN [ pair |-> { GenerateTokenPair(cfg, claims.user_id, claims.username,
                                              claims.email, t) },
                 err |-> nil, cause |-> nil ]

\* RefreshToken: the error of ValidateToken is returned wrapped
RefreshToken(cfg, tok, t) ==
    LET v == ValidateToken(cfg, tok, t)
    IN IF v.err # nil
       THEN [ pair |-> {}, err |-> ErrInvalidRefreshToken, cause |-> v.err ]
       ELSE LET claims == CHOOSE c \in v.claims : TRUE
            IN [ pair |-> { GenerateTokenPair(cfg, claims.user_id, claims.username,
                                              claims.email, t) },
                 err |-> nil, cause |-> nil ]

(***************************************************************************)
(* AuthMiddleware.  A header is the sequence of its pieces: words, single  *)
(* spaces and tokens.                                                      *)
(***************************************************************************)
AuthContextKey == "auth_user"
UserIDContextKey == "user_id"

StatusUnauthorized == 401

ZeroClaims ==
    [ user_id |-> 0, username |-> "", email |-> "", exp |-> 0, iat |-> 0,
      nbf |-> 0, iss |-> "", sub |-> << "user_", 0 >> ]

\* a string that is no JWT
Garbage ==
    [ segments |-> 1, alg |-> "", claims |-> ZeroClaims,
      sig |-> SignedString("", "", ZeroClaims) ]

Word(w) == [ c |-> w, tok |-> Garbage ]
Space == Word(" ")
Tok(t) == [ c |-> "token", tok |-> t ]

\* strings.Split(header, " "): the pieces between the spaces
RECURSIVE Split(_)
Split(h) ==
    IF \A i \in 1 .. Len(h) : h[i] # Space
    THEN << h >>
    ELSE LET k == CHOOSE i \in 1 .. Len(h) :
                      h[i] = Space /\ \A j \in 1 .. (i - 1) : h[j] # Space
         IN << SubSeq(h, 1, k - 1) >> \o Split(SubSeq(h, k + 1, Len(h)))

\* the token string that a part of the header is
TokenString(part) ==
    IF Len(part) = 1 /\ part[1].c = "token" THEN part[1].tok ELSE Garbage

\* c.Locals: the values bound to the request, by key
NoLocals == [ k \in { AuthContextKey, UserIDContextKey } |-> {} ]

\* auth.GetCurrentUser: the claims bound under "auth_user", if any
GetCurrentUser(locals) ==
    IF locals[AuthContextKey] = {}
    THEN [ user |-> {}, ok |-> FALSE ]
    ELSE [ user |-> locals[AuthContextKey], ok |-> TRUE ]

Unauthorized(error) ==
    [ status |-> StatusUnauthorized, error |-> error, locals |-> NoLocals,
      next |-> FALSE ]

\* RequireAuth without the test of the scheme
RequireAuthAnyScheme(cfg, header, t) ==
    IF header = << >>
    THEN Unauthorized("Unauthorized")
    ELSE LET parts == Split(header)
         IN IF Len(parts) # 2
            THEN Unauthorized("Unauthorized")
            ELSE IF parts[2] = << >>
                 THEN Unauthorized("Unauthorized")
                 ELSE LET v == ValidateToken(cfg, TokenString(parts[2]), t)
                      IN IF v.err # nil
                         THEN Unauthorized(v.err)
                         ELSE [ status |-> 0, error |-> nil,
                                locals |-> [ NoLocals EXCEPT
                                    ![AuthContextKey] = v.claims,
                                    ![UserIDContextKey] =
                                        { c.user_id : c \in v.claims } ],
                                next |-> TRUE ]

\* RequireAuth: 401 for a missing header, for a header that is not
\* "Bearer" and one more part, for an empty token and for a token that
\* ValidateToken refuses; otherwise the claims and the user id are bound and
\* the next handler runs
RequireAuth(cfg, header, t) ==
    IF header = << >>
    THEN Unauthorized("Unauthorized")
    ELSE LET parts == Split(header)
         IN IF Len(parts) # 2 \/ parts[1] # << Word("Bearer") >>
            THEN Unauthorized("Unauthorized")
            ELSE IF parts[2] = << >>
                 THEN Unauthorized("Unauthorized")
                 ELSE LET v == ValidateToken(cfg, TokenString(parts[2]), t)
                      IN IF v.err # nil
                         THEN Unauthorized(IF v.err = ErrExpiredToken
                                           THEN "Token expired"
                                           ELSE IF v.err = ErrInvalidToken
                                                THEN "Invalid token"
                                                ELSE IF v.err = ErrTokenClaims
                                                     THEN "Invalid token claims"
                                                     ELSE "Authentication failed")
                         ELSE [ status |-> 0, error |-> nil,
                                locals |-> [ NoLocals EXCEPT
                                    ![AuthContextKey] = v.claims,
                                    ![UserIDContextKey] =
                                        { c.user_id : c \in v.claims } ],
                                next |-> TRUE ]

(***************************************************************************)
(* The RBAC middleware: the guards over the engine.                        *)
(***************************************************************************)
StatusForbidden == 403
StatusInternalServerError == 500

\* the error of a query that the database fails
ErrQuery == "query failed"


(***************************************************************************)
(* InitializeSystemData call by call: a run counts the calls it makes on   *)
(* the store, and the failAt-th call of the run fails (0: none fails).     *)
(* A failed call returns ErrQuery and writes nothing.                      *)
(***************************************************************************)
\* a run on store s before its first store call
Run(s) == [ s |-> s, n |-> 0, err |-> nil, failed |-> FALSE ]

\* the run after one more store call, which left store s and returned e
After(b, s, e) ==
    [ s |-> s, n |-> b.n + 1, err |-> e, failed |-> b.failed \/ e # nil ]

\* a query of the store
Asked(b, failAt) ==
    After(b, b.s, IF b.n + 1 = failAt THEN ErrQuery ELSE nil)

\* an insert whose outcome on a working store is r
Wrote(b, r, failAt) ==
    IF b.n + 1 = failAt THEN After(b, b.s, ErrQuery) ELSE After(b, r.s, r.err)

\* what a function returns to its caller: the run with the returned error
Return(b, e) == [ b EXCEPT !.err = e ]

\* rbacService.CreateRole: ExistsByName, then Create
CreateRoleRun(b, name, isSystem, failAt) ==
    LET q == Asked(b, failAt)
    IN IF q.err # nil
       THEN q
       ELSE IF RoleExistsByName(q.s, name)
            THEN Return(q, ErrRoleAlreadyExists)
            ELSE Wrote(q, RoleCreateSave(q.s, name, isSystem), failAt)

\* rbacService.CreatePermission: ExistsByName, then Create
CreatePermissionRun(b, name, resource, action, isSystem, failAt) ==
    LET q == Asked(b, failAt)
    IN IF q.err # nil
       THEN q
       ELSE IF PermissionExistsByName(q.s, name)
            THEN Return(q, ErrPermissionAlreadyExists)
            ELSE Wrote(q, PermissionCreateSave(q.s, name, resource, action, isSystem),
                       failAt)

RECURSIVE createSystemRolesRun(_, _, _)
createSystemRolesRun(b, i, failAt) ==
    IF i > Len(systemRoles)
    THEN Return(b, nil)
    ELSE LET q == Asked(b, failAt)
         IN IF q.err # nil
            THEN q
            ELSE IF RoleExistsByName(q.s, systemRoles[i])
                 THEN createSystemRolesRun(q, i + 1, failAt)
                 ELSE LET c == CreateRoleRun(q, systemRoles[i], TRUE, failAt)
                      IN IF c.err # nil
                         THEN c
                         ELSE createSystemRolesRun(c, i + 1, failAt)

RECURSIVE createSystemPermissionsRun(_, _, _)
createSystemPermissionsRun(b, i, failAt) ==
    IF i > Len(systemPermissions)
    THEN Return(b, nil)
    ELSE LET q == Asked(b, failAt)
         IN IF q.err # nil
            THEN q
            ELSE IF PermissionExistsByName(q.s, systemPermissions[i].name)
                 THEN createSystemPermissionsRun(q, i + 1, failAt)
                 ELSE LET c == CreatePermissionRun(q, systemPermissions[i].name,
                                                   systemPermissions[i].resource,
                                                   systemPermissions[i].action,
                                                   TRUE, failAt)
                      IN IF c.err # nil
                         THEN c
                         ELSE createSystemPermissionsRun(c, i + 1, failAt)

\* the body of both loops of assignPermissionsToRoles from HasPermission on:
\* the row is inserted when it is missing
AssignMissingRun(b, roleID, permissionID, t, failAt) ==
    LET q == Asked(b, failAt)
    IN IF q.err # nil
       THEN q
       ELSE IF RolePermissionHasPermission(q.s, roleID, permissionID)
            THEN q
            ELSE LET w == Wrote(q, AssignPermission(q.s, roleID, permissionID, 0, t),
                                failAt)
                 IN IF w.err # nil /\ w.err # ErrRolePermissionAlreadyExists
                    THEN w
                    ELSE Return(w, nil)

RECURSIVE assignAdminRun(_, _, _, _, _, _)
assignAdminRun(b, adminID, perms, i, t, failAt) ==
    IF i > Len(perms)
    THEN Return(b, nil)
    ELSE LET a == AssignMissingRun(b, adminID, perms[i].id, t, failAt)
         IN IF a.err # nil
            THEN a
            ELSE assignAdminRun(a, adminID, perms, i + 1, t, failAt)

\* the second loop: a permission whose lookup returns an error, not found
\* or any other, is skipped
RECURSIVE assignUserRun(_, _, _, _, _)
assignUserRun(b, userRoleID, i, t, failAt) ==
    IF i > Len(userPermissions)
    THEN Return(b, nil)
    ELSE LET q == Asked(b, failAt)
         IN IF q.err # nil \/ GetPermissionByName(q.s, userPermissions[i]) # nil
            THEN assignUserRun(Return(q, nil), userRoleID, i + 1, t, failAt)
            ELSE LET pid == (CHOOSE p \in PermissionGetByName(q.s, userPermissions[i]) :
                                TRUE).id
                     a == AssignMissingRun(q, userRoleID, pid, t, failAt)
                 IN IF a.err # nil
                    THEN a
                    ELSE assignUserRun(a, userRoleID, i + 1, t, failAt)

\* GetRoleByName as a store call of a run
GetRoleByNameRun(b, name, failAt) ==
    LET q == Asked(b, failAt)
    IN IF q.err # nil THEN q ELSE Return(q, GetRoleByName(q.s, name))

assignPermissionsToRolesRun(b, t, failAt) ==
    LET admin == GetRoleByNameRun(b, RoleNameAdmin, failAt)
    IN IF admin.err # nil
       THEN admin
       ELSE LET adminID == (CHOOSE r \in RoleGetByName(admin.s, RoleNameAdmin) : TRUE).id
                listed == Asked(admin, failAt)
            IN IF listed.err # nil
               THEN listed
               ELSE LET a == assignAdminRun(listed, adminID,
                                            GetSystemPermissions(listed.s), 1, t, failAt)
                    IN IF a.err # nil
                       THEN a
                       ELSE LET user == GetRoleByNameRun(a, RoleNameUser, failAt)
                            IN IF user.err # nil
                               THEN user
                               ELSE assignUserRun(user,
                                        (CHOOSE r \in RoleGetByName(user.s, RoleNameUser) :
                                            TRUE).id,
                                        1, t, failAt)

InitializeSystemDataRun(s, t, failAt) ==
    LET r1 == createSystemRolesRun(Run(s), 1, failAt)
    IN IF r1.err # nil
       THEN r1
       ELSE LET r2 == createSystemPermissionsRun(r1, 1, failAt)
            IN IF r2.err # nil THEN r2 ELSE assignPermissionsToRolesRun(r2, t, failAt)

\* HasRole with the last positive answer kept: the question that let the
\* preceding request through is not put to the store again
HasRoleResultCached(s, userID, roleName, fault) ==
    IF /\ resp.op = "Request"
       /\ resp.next
       /\ \E call \in resp.engine :
             call.op = "HasRole" /\ call.userID = userID /\ call.roleName = roleName
    THEN [ has |-> TRUE, err |-> nil ]
    ELSE IF fault
         THEN [ has |-> FALSE, err |-> ErrQuery ]
         ELSE [ has |-> HasRole(s, userID, roleName), err |-> nil ]

\* rbacService.HasRole as a guard calls it: the answer and the error of the
\* query (false together with the error when the query fails)
HasRoleResult(s, userID, roleName, fault) ==
    IF fault
    THEN [ has |-> FALSE, err |-> ErrQuery ]
    ELSE [ has |-> HasRole(s, userID, roleName), err |-> nil ]

\* rbacService.HasPermission as a guard calls it
HasPermissionResult(s, userID, resource, action, fault) ==
    IF fault
    THEN [ has |-> FALSE, err |-> ErrQuery ]
    ELSE [ has |-> HasPermission(s, userID, resource, action), err |-> nil ]

\* the call a guard makes on the engine
EngineCall(op, userID, resource, action, roleName) ==
    [ op |-> op, userID |-> userID, resource |-> resource, action |-> action,
      roleName |-> roleName ]

\* the response of a guard that stops the request
Refuse(status, error, message, locals, engine) ==
    [ status |-> status, error |-> error, message |-> message,
      locals |-> locals, next |-> FALSE, engine |-> engine ]

\* c.Next() of a guard
Pass(locals, engine) ==
    [ status |-> 0, error |-> nil, message |-> "", locals |-> locals,
      next |-> TRUE, engine |-> engine ]

\* the user id of the claims bound to the request
CurrentUserID(locals) ==
    (CHOOSE c \in GetCurrentUser(locals).user : TRUE).user_id

\* RequirePermission with the engine's error taken for a refusal
RequirePermissionErrorForbidden(s, locals, resource, action, fault) ==
    IF ~GetCurrentUser(locals).ok
    THEN Refuse(StatusUnauthorized, "Unauthorized", "Authentication required",
                locals, {})
    ELSE LET userID == CurrentUserID(locals)
             e == HasPermissionResult(s, userID, resource, action, fault)
             call == { EngineCall("HasPermission", userID, resource, action, "") }
         IN IF ~e.has
            THEN Refuse(StatusForbidden, "Forbidden",
                        "Insufficient permissions", locals, call)
            ELSE Pass(locals, call)

\* RBACMiddleware.RequirePermission
RequirePermission(s, locals, resource, action, fault) ==
    IF ~GetCurrentUser(locals).ok
    THEN Refuse(StatusUnauthorized, "Unauthorized", "Authentication required",
                locals, {})
    ELSE LET userID == CurrentUserID(locals)
             e == HasPermissionResult(s, userID, resource, action, fault)
             call == { EngineCall("HasPermission", userID, resource, action, "") }
         IN IF e.err # nil
            THEN Refuse(StatusInternalServerError, "Internal server error",
                        "Failed to verify permissions", locals, call)
            ELSE IF ~e.has
                 THEN Refuse(StatusForbidden, "Forbidden",
                             "Insufficient permissions", locals, call)
                 ELSE Pass(locals, call)

\* RBACMiddleware.RequireRole
RequireRole(s, locals, roleName, fault) ==
    IF ~GetCurrentUser(locals).ok
    THEN Refuse(StatusUnauthorized, "Unauthorized", "Authentication required",
                locals, {})
    ELSE LET userID == CurrentUserID(locals)
             e == HasRoleResult(s, userID, roleName, fault)
             call == { EngineCall("HasRole", userID, "", "", roleName) }
         IN IF e.err # nil
            THEN Refuse(StatusInternalServerError, "Internal server error",
                        "Failed to verify role", locals, call)
            ELSE IF ~e.has
                 THEN Refuse(StatusForbidden, "Forbidden",
                             "Required role not found", locals, call)
                 ELSE Pass(locals, call)

\* RBACMiddleware.RequireAdmin
RequireAdmin(s, locals, fault) ==
    IF ~GetCurrentUser(locals).ok
    THEN Refuse(StatusUnauthorized, "Unauthorized", "Authentication required",
                locals, {})
    ELSE LET userID == CurrentUserID(locals)
             e == HasRoleResult(s, userID, "admin", fault)
             call == { EngineCall("HasRole", userID, "", "", "admin") }
         IN IF e.err # nil
            THEN Refuse(StatusInternalServerError, "Internal server error",
                        "Failed to verify admin role", locals, call)
            ELSE IF ~e.has
                 THEN Refuse(StatusForbidden, "Forbidden",
                             "Administrator privileges required", locals, call)
                 ELSE Pass(locals, call)

\* OptionalAuth: binds the claims of a token that ValidateToken accepts and
\* lets every request through
OptionalAuth(cfg, header, t) ==
    LET anonymous == [ status |-> 0, error |-> nil, locals |-> NoLocals,
                       next |-> TRUE ]
    IN IF header = << >>
       THEN anonymous
       ELSE LET parts == Split(header)
            IN IF Len(parts) # 2 \/ parts[1] # << Word("Bearer") >>
               THEN anonymous
               ELSE IF parts[2] = << >>
                    THEN anonymous
                    ELSE LET v == ValidateToken(cfg, TokenString(parts[2]), t)
                         IN IF v.err # nil
                            THEN anonymous
                            ELSE [ anonymous EXCEPT !.locals =
                                     [ NoLocals EXCEPT
                                         ![AuthContextKey] = v.claims,
                                         ![UserIDContextKey] =
                                             { c.user_id : c \in v.claims } ] ]

\* a middleware of a route group
Middleware(name, resource, action, roleName) ==
    [ name |-> name, resource |-> resource, action |-> action,
      roleName |-> roleName ]

RequireAuthMiddleware == Middleware("RequireAuth", "", "", "")
OptionalAuthMiddleware == Middleware("OptionalAuth", "", "", "")
RequireAdminMiddleware == Middleware("RequireAdmin", "", "", "")

\* the groups as the user router registered them before the guard was added:
\* RequireAuth only
ManagementRoutesAuthOnly ==
    { [ path |-> p, chain |-> << RequireAuthMiddleware >> ] :
        p \in { "/users", "/roles", "/permissions" } }

\* the groups of the user, role and permission routers: RequireAuth, then
\* RequireAdmin, then the handlers
ManagementRoutes ==
    { [ path |-> p, chain |-> << RequireAuthMiddleware, RequireAdminMiddleware >> ] :
        p \in { "/users", "/roles", "/permissions" } }

\* groups that mount each guard behind OptionalAuth, so that a request
\* without identity reaches the guard
GuardRoutes ==
    { [ path |-> "/content",
        chain |-> << OptionalAuthMiddleware,
                     Middleware("RequirePermission", "user", "read", "") >> ],
      [ path |-> "/members",
        chain |-> << OptionalAuthMiddleware,
                     Middleware("RequireRole", "", "", RoleNameUser) >> ],
      [ path |-> "/admin",
        chain |-> << OptionalAuthMiddleware, RequireAdminMiddleware >> ] }

Routes == ManagementRoutes \cup GuardRoutes

\* one middleware on a request
Handle(m, s, cfg, header, locals, t, fault) ==
    IF m.name = "RequireAuth"
    THEN LET r == RequireAuth(cfg, header, t)
         IN IF r.next
            THEN Pass(r.locals, {})
            ELSE Refuse(r.status, r.error, "", r.locals, {})
    ELSE IF m.name = "OptionalAuth"
    THEN Pass(OptionalAuth(cfg, header, t).locals, {})
    ELSE IF m.name = "RequirePermission"
    THEN RequirePermission(s, locals, m.resource, m.action, fault)
    ELSE IF m.name = "RequireRole"
    THEN RequireRole(s, locals, m.roleName, fault)
    ELSE RequireAdmin(s, locals, fault)

\* the chain of a group: each middleware runs when the one before it called
\* c.Next(); the handler runs when the last one did
RECURSIVE Serve(_, _, _, _, _, _, _)
Serve(chain, s, cfg, header, locals, t, fault) ==
    IF chain = << >>
    THEN Pass(locals, {})
    ELSE LET r == Handle(Head(chain), s, cfg, header, locals, t, fault)
         IN IF ~r.next
            THEN r
            ELSE LET rest == Serve(Tail(chain), s, cfg, header, r.locals, t, fault)
                 IN [ rest EXCEPT !.engine = r.engine \cup @ ]

(***************************************************************************)
(* AuthHandler.  The body of a request is the fields it was parsed into.   *)
(***************************************************************************)
StatusOK == 200

\* Login: the error of ValidateUser chooses the status of the answer; a
\* token pair is generated for the user that ValidateUser returned
Login(s, cfg, username, password, t) ==
    { IF v.panic
      THEN [ panic |-> TRUE, status |-> 0, err |-> nil, pair |-> {} ]
      ELSE IF v.err # nil
           THEN [ panic |-> FALSE,
                  status |-> CASE v.err = ErrInvalidCredentials -> StatusUnauthorized
                               [] v.err = ErrUserBanned -> StatusForbidden
                               [] v.err = ErrUserInactive -> StatusForbidden
                               [] OTHER -> StatusInternalServerError,
                  err |-> v.err, pair |-> {} ]
           ELSE [ panic |-> FALSE, status |-> StatusOK, err |-> nil,
                  pair |-> { GenerateTokenPair(cfg, user.id, user.username,
                                               user.email, t) : user \in v.user } ] :
      v \in ValidateUser(s, username, password) }

\* AuthHandler.RefreshToken: the token of the body goes to the JWT manager,
\* whose error is answered 401
AuthHandlerRefreshToken(cfg, tok, t) ==
    LET r == RefreshToken(cfg, tok, t)
    IN [ status |-> IF r.err # nil THEN StatusUnauthorized ELSE StatusOK,
         err |-> r.err, pair |-> r.pair ]

(***************************************************************************)
(* The calls on the JWT manager and the middleware.                        *)
(***************************************************************************)
NoResponse ==
    [ op |-> "none", header |-> << >>, presented |-> {}, pair |-> {},
      err |-> nil, cause |-> nil, claims |-> {}, status |-> 0,
      locals |-> NoLocals, next |-> FALSE, route |-> "", message |-> "",
      engine |-> {}, fault |-> FALSE, before |-> "none" ]

\* the tokens clients hold
KnownTokens == UNION { { p.AccessToken, p.RefreshToken } : p \in issued }

\* what an attacker makes of a token: a later expiry under the old
\* signature, a later expiry signed with another key, and no signature
Forged(tok) ==
    { [ tok EXCEPT !.claims.exp = @ + 2 * TimePrecision ],
      [ tok EXCEPT !.claims.exp = @ + 2 * TimePrecision,
                   !.sig = SignedString("attacker", "HS256",
                               [ tok.claims EXCEPT !.exp = @ + 2 * TimePrecision ]) ],
      [ tok EXCEPT !.alg = "none", !.sig = SignedString("", "none", tok.claims) ] }

TokenInputs == KnownTokens \cup UNION { Forged(tok) : tok \in KnownTokens }
                   \cup { Garbage }

\* the access tokens clients hold
AccessTokens == { p.AccessToken : p \in issued }

HeaderInputs ==
    { << >>, << Word("Bearer") >>, << Word("Bearer"), Space >> }
      \cup { << Word("Bearer"), Space, Tok(tok) >> :
               tok \in KnownTokens \cup UNION { Forged(t) : t \in AccessTokens }
                          \cup { Garbage } }
      \cup UNION { { << Word("Basic"), Space, Tok(tok) >>,
                     << Word("Bearer"), Space, Space, Tok(tok) >>,
                     << Word("Bearer"), Space, Tok(tok), Space, Tok(tok) >>,
                     << Word("Bearer"), Tok(tok) >>,
                     << Tok(tok) >> } : tok \in AccessTokens }

GenerateTokenPairCall(id) ==
    LET pair == GenerateTokenPair(config, id.userID, id.username, id.email, now)
    IN /\ Cardinality(issued \cup { pair }) <= MaxPairs
       /\ issued' = issued \cup { pair }
       /\ resp' = [ NoResponse EXCEPT !.op = "GenerateTokenPair",
                                      !.pair = { pair } ]
       /\ UNCHANGED << storeVars, ret, now, config, calls >>

ValidateTokenCall(tok) ==
    LET v == ValidateToken(config, tok, now)
    IN /\ resp' = [ NoResponse EXCEPT !.op = "ValidateToken",
                                      !.presented = { tok }, !.err = v.err,
                                      !.claims = v.claims ]
       /\ UNCHANGED << storeVars, ret, now, config, issued, calls >>

RefreshTokenCall(tok) ==
    LET r == RefreshToken(config, tok, now)
    IN /\ Cardinality(issued \cup r.pair) <= MaxPairs
       /\ issued' = issued \cup r.pair
       /\ resp' = [ NoResponse EXCEPT !.op = "RefreshToken",
                                      !.presented = { tok }, !.pair = r.pair,
                                      !.err = r.err, !.cause = r.cause ]
       /\ UNCHANGED << storeVars, ret, now, config, calls >>

RequireAuthCall(header) ==
    LET r == RequireAuth(config, header, now)
    IN /\ resp' = [ NoResponse EXCEPT !.op = "RequireAuth", !.header = header,
                                      !.err = r.error,
                                      !.status = r.status, !.locals = r.locals,
                                      !.next = r.next ]
       /\ UNCHANGED << storeVars, ret, now, config, issued, calls >>

\* the bodies of the login requests
LoginInputs ==
    { [ username |-> n, password |-> PasswordInputs[i] ] :
        n \in { "alice", "bob", "carol" }, i \in DOMAIN PasswordInputs }

LoginCall(req) ==
    \E r \in Login(Store, config, req.username, req.password, now) :
       /\ Cardinality(issued \cup r.pair) <= MaxPairs
       /\ issued' = issued \cup r.pair
       /\ resp' = [ op |-> "Login", username |-> req.username,
                    password |-> req.password, panic |-> r.panic,
                    status |-> r.status, err |-> r.err, pair |-> r.pair ]
       /\ UNCHANGED << storeVars, ret, now, config, calls >>

RefreshRequestCall(tok) ==
    \E r \in { AuthHandlerRefreshToken(config, tok, now) } :
       /\ Cardinality(issued \cup r.pair) <= MaxPairs
       /\ issued' = issued \cup r.pair
       /\ resp' = [ NoResponse EXCEPT !.op = "RefreshRequest",
                                      !.presented = { tok }, !.pair = r.pair,
                                      !.err = r.err, !.status = r.status ]
       /\ UNCHANGED << storeVars, ret, now, config, calls >>


\* the headers of the requests on the guarded groups: none, the access
\* tokens clients hold, and access tokens rewritten to name user 1
RequestHeaders ==
    { << >> }
      \cup { << Word("Bearer"), Space, Tok(tok) >> :
               tok \in AccessTokens
                          \cup { [ t EXCEPT !.claims.user_id = 1 ] : t \in AccessTokens } }

\* how the preceding request ended when it was the same request
Before(route, header) ==
    IF resp.op = "Request" /\ resp.route = route.path /\ resp.header = header
    THEN IF resp.next THEN "allowed" ELSE "refused"
    ELSE "none"

\* a request on a route group: the chain of the group runs on it.  The
\* response is kept together with the outcome of the preceding request.  A
\* failing query shows only when the engine was asked
RequestCall(route, header, fault) ==
    \E r \in { Serve(route.chain, Store, config, header, NoLocals, now, fault) } :
       /\ resp' = [ NoResponse EXCEPT !.op = "Request", !.route = route.path,
                                      !.header = header, !.err = r.error,
                                      !.message = r.message,
                                      !.status = r.status, !.locals = r.locals,
                                      !.next = r.next, !.engine = r.engine,
                                      !.fault = fault /\ r.engine # {},
                                      !.before = Before(route, header) ]
       /\ UNCHANGED << storeVars, ret, now, config, issued, calls >>

(***************************************************************************)
(* The calls on the store.                                                 *)
(***************************************************************************)
Commit(r, op) ==
    \E done \in { r } :
        /\ users' = done.s.users
        /\ roles' = done.s.roles
        /\ permissions' = done.s.permissions
        /\ userRoles' = done.s.userRoles
        /\ rolePermissions' = done.s.rolePermissions
        /\ nextID' = done.s.nextID
        /\ ret' = [ op |-> op, err |-> done.err ]
        /\ UNCHANGED << now, authVars, calls >>

\* the rows created through the API so far: system rows are created by the
\* bootstrap only and are never deleted, every other id was handed out to
\* an API call
APIRolesCreated(s) ==
    s.nextID.role - 1 - Cardinality({ r \in s.roles : r.isSystem })

APIPermissionsCreated(s) ==
    s.nextID.permission - 1 - Cardinality({ p \in s.permissions : p.isSystem })

\* the number of creations stays within the explored range
WithinBounds(s) ==
    /\ s.nextID.user <= MaxUsers + 1
    /\ APIRolesCreated(s) <= MaxAPIRoles
    /\ APIPermissionsCreated(s) <= MaxAPIPermissions

\* the ids a call may name: ids of rows of the store and one id of no row
UserIDInputs == { NoID, 1 }
AssignerIDInputs == { NoID, 1 }
RoleIDInputs ==
    { r.id : r \in { q \in roles : q.name \in FocusRoleNames } }
        \cup { nextID.role }

PermissionIDInputs ==
    { p.id : p \in { q \in permissions : q.name \in FocusPermissionNames } }
        \cup { nextID.permission }

\* a create handler that passes is_system = true
CreateRoleCallSystem(name) ==
    LET r == CreateRole(Store, name, TRUE)
    IN WithinBounds(r.s) /\ Commit(r, "CreateRole")

\* RoleHandler.CreateRole: the API creates non-system roles
CreateRoleCall(name) ==
    LET r == CreateRole(Store, name, FALSE)
    IN WithinBounds(r.s) /\ Commit(r, "CreateRole")

\* PermissionHandler.CreatePermission: the API creates non-system permissions
CreatePermissionCall(p) ==
    LET r == CreatePermission(Store, p.name, p.resource, p.action, FALSE)
    IN WithinBounds(r.s) /\ Commit(r, "CreatePermission")

DeleteRoleCall(id) == Commit(DeleteRole(Store, id), "DeleteRole")

DeletePermissionCall(id) == Commit(DeletePermission(Store, id), "DeletePermission")

\* the display name and description of an update request
UpdateInputs ==
    { [ displayName |-> "", description |-> "changed" ],
      [ displayName |-> "Renamed", description |-> "changed" ] }

UpdateRoleCall(id, d) ==
    Commit(UpdateRole(Store, id, d.displayName, d.description), "UpdateRole")

UpdatePermissionCall(id, d) ==
    Commit(UpdatePermission(Store, id, d.displayName, d.description),
           "UpdatePermission")

AssignRoleToUserCall(userID, roleID, assignerID) ==
    LET r == AssignRoleToUser(Store, userID, roleID, assignerID, now)
    IN WithinBounds(r.s) /\ Commit(r, "AssignRoleToUser")

RemoveRoleFromUserCall(userID, roleID) ==
    Commit(RemoveRoleFromUser(Store, userID, roleID), "RemoveRoleFromUser")

AssignPermissionToRoleCall(roleID, permissionID, assignerID) ==
    LET r == AssignPermissionToRole(Store, roleID, permissionID, assignerID, now)
    IN WithinBounds(r.s) /\ Commit(r, "AssignPermissionToRole")

RemovePermissionFromRoleCall(roleID, permissionID) ==
    Commit(RemovePermissionFromRole(Store, roleID, permissionID),
           "RemovePermissionFromRole")

InitializeSystemDataCall ==
    LET r == InitializeSystemData(Store, now)
    IN WithinBounds(r.s) /\ Commit(r, "InitializeSystemData")


\* the store call of a bootstrap run that fails: none (0) or the failAt-th
FailAts == 0 .. MaxStoreCalls

\* InitializeSystemData on a store that fails one call: the rows written
\* before the failure stay
InitializeSystemDataRunCall(failAt) ==
    \E b \in { InitializeSystemDataRun(Store, now, failAt) } :
       WithinBounds(b.s) /\ Commit(Result(b.s, b.err), "InitializeSystemData")

\* the salts HashPassword draws when a user registers
SaltInputs == { [ i \in 1 .. DefaultPasswordConfig.SaltLength |-> 0 ] }

CreateUserCall(u) ==
    \E salt \in SaltInputs :
       \E r \in { CreateUser(Store, u.username, u.email, u.password, salt, now) } :
          WithinBounds(r.s) /\ Commit(r, "CreateUser")

ActivateUserCall(id) == Commit(ActivateUser(Store, id), "ActivateUser")

DeactivateUserCall(id) == Commit(DeactivateUser(Store, id), "DeactivateUser")

BanUserCall(id) == Commit(BanUser(Store, id), "BanUser")

DeleteUserCall(id) == Commit(DeleteUser(Store, id), "DeleteUser")

(***************************************************************************)
(* Service calls that run at the same time.  A create or an assignment is  *)
(* two statements on the store, the existence check and the insert; other  *)
(* callers run between them.                                               *)
(***************************************************************************)
Callers == 1 .. MaxCallers

\* a call of the service with its arguments
Call(op, userID, roleID, permissionID, assignerID, name, resource, action) ==
    [ op |-> op, userID |-> userID, roleID |-> roleID,
      permissionID |-> permissionID, assignerID |-> assignerID,
      name |-> name, resource |-> resource, action |-> action ]

NoCall == Call("none", NoID, NoID, NoID, NoID, "", "", "")

\* a caller: before its call, between the check and the insert, and after
\* the call returned err
Idle == [ pc |-> "idle", call |-> NoCall, err |-> nil ]

\* the existence check of a call: the error it returns at once, or nil when
\* the call goes on to the insert
CheckExists(s, call) ==
    IF call.op = "AssignRoleToUser"
    THEN IF UserRoleHasRole(s, call.userID, call.roleID)
         THEN ErrUserRoleAlreadyExists ELSE nil
    ELSE IF call.op = "AssignPermissionToRole"
    THEN IF RolePermissionHasPermission(s, call.roleID, call.permissionID)
         THEN ErrRolePermissionAlreadyExists ELSE nil
    ELSE IF call.op = "CreateRole"
    THEN IF RoleExistsByName(s, call.name) THEN ErrRoleAlreadyExists ELSE nil
    ELSE IF PermissionExistsByName(s, call.name)
         THEN ErrPermissionAlreadyExists ELSE nil

\* the insert of a call: the repository's Save and the error it returns
InsertRow(s, call, t) ==
    IF call.op = "AssignRoleToUser"
    THEN AssignRole(s, call.userID, call.roleID, call.assignerID, t)
    ELSE IF call.op = "AssignPermissionToRole"
    THEN AssignPermission(s, call.roleID, call.permissionID, call.assignerID, t)
    ELSE IF call.op = "CreateRole"
    THEN RoleCreateSave(s, call.name, FALSE)
    ELSE PermissionCreateSave(s, call.name, call.resource, call.action, FALSE)

\* the calls made at the same time: assignments among the rows of the
\* store, and creations
ConcurrentCalls ==
    { Call("AssignRoleToUser", u, r, NoID, u, "", "", "") :
        u \in IDs(users), r \in RoleIDInputs \cap IDs(roles) }
      \cup { Call("AssignPermissionToRole", NoID, r, p, NoID, "", "", "") :
               r \in RoleIDInputs \cap IDs(roles),
               p \in PermissionIDInputs \cap IDs(permissions) }
      \cup { Call("CreateRole", NoID, NoID, NoID, NoID, name, "", "") :
               name \in RoleNameInputs }
      \cup { Call("CreatePermission", NoID, NoID, NoID, NoID,
                  p.name, p.resource, p.action) : p \in PermissionInputs }

\* the first statement of a call: the existence check
CheckStep(c, call) ==
    /\ calls[c].pc = "idle"
    /\ calls' = [ calls EXCEPT ![c] =
                    IF CheckExists(Store, call) # nil
                    THEN [ pc |-> "done", call |-> call,
                           err |-> CheckExists(Store, call) ]
                    ELSE [ pc |-> "checked", call |-> call, err |-> nil ] ]
    /\ UNCHANGED << storeVars, now, ret, authVars >>

\* the second statement of a call: the insert, on the store as it is now
InsertStep(c) ==
    /\ calls[c].pc = "checked"
    /\ \E done \in { InsertRow(Store, calls[c].call, now) } :
          /\ WithinBounds(done.s)
          /\ users' = done.s.users
          /\ roles' = done.s.roles
          /\ permissions' = done.s.permissions
          /\ userRoles' = done.s.userRoles
          /\ rolePermissions' = done.s.rolePermissions
          /\ nextID' = done.s.nextID
          /\ calls' = [ calls EXCEPT ![c] = [ @ EXCEPT !.pc = "done",
                                                       !.err = done.err ] ]
    /\ UNCHANGED << now, ret, authVars >>

\* time passes
Tick(last) ==
    /\ now < last
    /\ now' = now + 1
    /\ UNCHANGED << storeVars, ret, authVars, calls >>

Init ==
    /\ users = EmptyStore.users
    /\ roles = EmptyStore.roles
    /\ permissions = EmptyStore.permissions
    /\ userRoles = EmptyStore.userRoles
    /\ rolePermissions = EmptyStore.rolePermissions
    /\ nextID = EmptyStore.nextID
    /\ now = 0
    /\ ret = [ op |-> "none", err |-> nil ]
    /\ config \in TokenConfigs
    /\ issued = {}
    /\ resp = NoResponse
    /\ calls = [ c \in Callers |-> Idle ]

\* the administration of users, roles and assignments over the catalog
Next ==
    \/ \E name \in RoleNameInputs : CreateRoleCall(name)
    \/ \E id \in RoleIDInputs : DeleteRoleCall(id)
    \/ \E id \in PermissionIDInputs : DeletePermissionCall(id)
    \/ \E u \in UserIDInputs, r \in RoleIDInputs, a \in AssignerIDInputs :
          AssignRoleToUserCall(u, r, a)
    \/ \E u \in UserIDInputs, r \in RoleIDInputs : RemoveRoleFromUserCall(u, r)
    \/ \E r \in RoleIDInputs, p \in PermissionIDInputs, a \in AssignerIDInputs :
          AssignPermissionToRoleCall(r, p, a)
    \/ \E r \in RoleIDInputs, p \in PermissionIDInputs :
          RemovePermissionFromRoleCall(r, p)
    \/ InitializeSystemDataCall
    \/ \E u \in UserInputs : CreateUserCall(u)
    \/ Tick(MaxTime)

Spec == Init /\ [][Next]_vars

\* the bootstrap on stores that the API has created rows in
NextBoot ==
    \/ \E name \in RoleNameInputs : CreateRoleCall(name)
    \/ \E p \in PermissionInputs : CreatePermissionCall(p)
    \/ \E id \in RoleIDInputs : DeleteRoleCall(id)
    \/ \E id \in PermissionIDInputs : DeletePermissionCall(id)
    \/ \E r \in RoleIDInputs, p \in PermissionIDInputs, a \in AssignerIDInputs :
          AssignPermissionToRoleCall(r, p, a)
    \/ \E r \in RoleIDInputs, p \in PermissionIDInputs :
          RemovePermissionFromRoleCall(r, p)
    \/ InitializeSystemDataCall
    \/ Tick(MaxTime)

SpecBoot == Init /\ [][NextBoot]_vars

\* tokens are issued, presented and refreshed while time passes
NextAuth ==
    \/ \E id \in IdentityInputs : GenerateTokenPairCall(id)
    \/ \E tok \in TokenInputs : ValidateTokenCall(tok)
    \/ \E tok \in TokenInputs : RefreshTokenCall(tok)
    \/ \E h \in HeaderInputs : RequireAuthCall(h)
    \/ Tick(MaxTokenTime)

SpecAuth == Init /\ [][NextAuth]_vars

\* the roles and the permission the guarded groups ask for
GuardRoleIDs ==
    { r.id : r \in { q \in roles : q.name \in { RoleNameAdmin, RoleNameUser } } }

GuardPermissionIDs ==
    { p.id : p \in { q \in permissions : q.name = "user:read" } }

\* requests on the guarded groups while user 1 is given and loses roles,
\* and the role user is given and loses the permission user:read
NextGuard ==
    \/ InitializeSystemDataCall
    \/ \E u \in UserInputs : CreateUserCall(u)
    \/ \E r \in GuardRoleIDs : AssignRoleToUserCall(1, r, 1)
    \/ \E r \in GuardRoleIDs : RemoveRoleFromUserCall(1, r)
    \/ \E r \in GuardRoleIDs, p \in GuardPermissionIDs :
          AssignPermissionToRoleCall(r, p, 1)
    \/ \E r \in GuardRoleIDs, p \in GuardPermissionIDs :
          RemovePermissionFromRoleCall(r, p)
    \/ \E id \in IdentityInputs :
          Cardinality(issued) < MaxSessions /\ GenerateTokenPairCall(id)
    \/ \E route \in Routes, header \in RequestHeaders, fault \in BOOLEAN :
          RequestCall(route, header, fault)

SpecGuard == Init /\ [][NextGuard]_vars

\* callers that create and assign at the same time, beside the bootstrap,
\* the registration of users and the creation of roles
NextRace ==
    \/ InitializeSystemDataCall
    \/ \E u \in UserInputs : CreateUserCall(u)
    \/ \E name \in RoleNameInputs : CreateRoleCall(name)
    \/ \E c \in Callers, call \in ConcurrentCalls : CheckStep(c, call)
    \/ \E c \in Callers : InsertStep(c)
    \/ Tick(MaxTime)

SpecRace == Init /\ [][NextRace]_vars

\* rows are created, roles are assigned to users and rows are updated
NextUpdate ==
    \/ InitializeSystemDataCall
    \/ \E name \in RoleNameInputs : CreateRoleCall(name)
    \/ \E p \in PermissionInputs : CreatePermissionCall(p)
    \/ \E u \in UserInputs : CreateUserCall(u)
    \/ \E r \in RoleIDInputs : AssignRoleToUserCall(1, r, 1)
    \/ \E id \in RoleIDInputs, d \in UpdateInputs : UpdateRoleCall(id, d)
    \/ \E id \in PermissionIDInputs, d \in UpdateInputs :
          UpdatePermissionCall(id, d)

SpecUpdate == Init /\ [][NextUpdate]_vars

\* the bootstrap on a store that can fail, next to rows the API creates
NextFault ==
    \/ \E p \in PermissionInputs : CreatePermissionCall(p)
    \/ \E failAt \in FailAts : InitializeSystemDataRunCall(failAt)

SpecFault == Init /\ [][NextFault]_vars

\* passwords are hashed and verified
NextHash ==
    \/ \E i \in 1 .. Len(PasswordInputs), j \in 1 .. Len(PasswordConfigs) :
          HashPasswordCall(PasswordInputs[i], PasswordConfigs[j])
    \/ \E i \in 1 .. Len(PasswordInputs) : VerifyPasswordCall(PasswordInputs[i])

SpecHash == Init /\ [][NextHash]_vars

\* users register, log in, present and refresh their tokens while their
\* accounts are deactivated, banned, activated and deleted
NextLogin ==
    \/ \E u \in UserInputs : CreateUserCall(u)
    \/ \E id \in UserIDInputs : ActivateUserCall(id)
    \/ \E id \in UserIDInputs : DeactivateUserCall(id)
    \/ \E id \in UserIDInputs : BanUserCall(id)
    \/ \E id \in UserIDInputs : DeleteUserCall(id)
    \/ \E req \in LoginInputs : LoginCall(req)
    \/ \E tok \in KnownTokens : RefreshRequestCall(tok)
    \/ \E tok \in KnownTokens : RequireAuthCall(<< Word("Bearer"), Space, Tok(tok) >>)
    \/ Tick(MaxTokenTime)

SpecLogin == Init /\ [][NextLogin]_vars

(***************************************************************************)
(* Properties of the RBAC store.                                           *)
(***************************************************************************)
\* the user ids a permission check is asked about
CheckedUserIDs == IDs(users) \cup UserIDInputs

\* C1: in every reachable state HasPermission(u, resource, action) is true
\* iff some user-role row of u and some role-permission row of the same role
\* lead to a permission with exactly that resource and that action
HasPermissionIffAssigned ==
    \A u \in CheckedUserIDs, res \in Resources, act \in Actions :
        HasPermission(Store, u, res, act)
            <=> \E ur \in userRoles, rp \in rolePermissions, p \in permissions :
                    /\ ur.userID = u
                    /\ rp.roleID = ur.roleID
                    /\ rp.permissionID = p.id
                    /\ p.resource = res
                    /\ p.action = act

\* a user holds user:read through a role that does not give user:manage
HasPermissionWitness ==
    \E u \in IDs(users) :
        /\ HasPermission(Store, u, "user", "read")
        /\ ~HasPermission(Store, u, "user", "manage")
        /\ \E v \in CheckedUserIDs : ~HasPermission(Store, v, "user", "read")

HasAssignments(roleID) ==
    \/ \E ur \in userRoles : ur.roleID = roleID
    \/ \E rp \in rolePermissions : rp.roleID = roleID

\* C2: DeleteRole / DeletePermission of a system row fails with
\* ErrSystemRoleCannotDelete / ErrSystemPermissionCannotDelete and leaves
\* the store as it was, and no step removes a system row
SystemRowsProtected ==
    [][ /\ \A id \in RoleIDInputs :
              (ret'.op = "DeleteRole" /\ (\E r \in roles : r.id = id /\ r.isSystem)
                 /\ DeleteRoleCall(id))
                  => (ret'.err = ErrSystemRoleCannotDelete /\ UNCHANGED storeVars)
        /\ \A id \in PermissionIDInputs :
              (ret'.op = "DeletePermission"
                 /\ (\E p \in permissions : p.id = id /\ p.isSystem)
                 /\ DeletePermissionCall(id))
                  => (ret'.err = ErrSystemPermissionCannotDelete /\ UNCHANGED storeVars)
        /\ \A r \in roles : r.isSystem => r \in roles'
        /\ \A p \in permissions : p.isSystem => p \in permissions' ]_vars

\* the delete of a system role that has assignments was refused
SystemRowsProtectedWitness ==
    /\ ret = [ op |-> "DeleteRole", err |-> ErrSystemRoleCannotDelete ]
    /\ \E r \in roles : r.isSystem /\ r.name = RoleNameAdmin /\ HasAssignments(r.id)

\* no two rows of a table with the same key
NoDuplicateRows(s) ==
    /\ \A r1, r2 \in s.roles : (r1.id = r2.id \/ r1.name = r2.name) => r1 = r2
    /\ \A p1, p2 \in s.permissions :
          (\/ p1.id = p2.id
           \/ p1.name = p2.name
           \/ (p1.resource = p2.resource /\ p1.action = p2.action)) => p1 = p2
    /\ \A a, b \in s.rolePermissions :
          (a.roleID = b.roleID /\ a.permissionID = b.permissionID) => a = b
    /\ \A a, b \in s.userRoles :
          (a.userID = b.userID /\ a.roleID = b.roleID) => a = b

\* C3: InitializeSystemData run two or three times in a row on the store
\* ends with the rows of a single run, without duplicates, and every run
\* after the first returns no error
BootstrapIdempotent ==
    LET r1 == InitializeSystemData(Store, now)
        r2 == InitializeSystemData(r1.s, now + 1)
        r3 == InitializeSystemData(r2.s, now + 2)
    IN /\ r2.s = r1.s
       /\ r3.s = r1.s
       /\ NoDuplicateRows(r1.s)
       /\ r2.err = nil
       /\ r3.err = nil

\* the resource and action pairs of the catalog: the four actions on user,
\* role and permission, and system:manage
CatalogPairs ==
    { [ resource |-> res, action |-> act ] :
        res \in { "user", "role", "permission" },
        act \in { "read", "write", "delete", "manage" } }
      \cup { [ resource |-> "system", action |-> "manage" ] }

RoleIDByName(name) == { r.id : r \in { q \in roles : q.name = name } }

PermissionsOfRole(roleID) ==
    { p \in permissions :
        \E rp \in rolePermissions : rp.roleID = roleID /\ rp.permissionID = p.id }

\* the store holds the bootstrap's rows and nothing else
BootstrappedExactly ==
    /\ Cardinality(roles) = 2
    /\ { [ name |-> r.name, isSystem |-> r.isSystem ] : r \in roles }
          = { [ name |-> "admin", isSystem |-> TRUE ],
              [ name |-> "user", isSystem |-> TRUE ] }
    /\ Cardinality(permissions) = 13
    /\ { [ resource |-> p.resource, action |-> p.action ] : p \in permissions }
          = CatalogPairs
    /\ \A p \in permissions : p.isSystem
    /\ Cardinality({ p.name : p \in permissions }) = 13
    /\ \A id \in RoleIDByName("admin") : PermissionsOfRole(id) = permissions
    /\ \A id \in RoleIDByName("user") :
          { p.name : p \in PermissionsOfRole(id) } = { "user:read" }
    /\ \A id \in RoleIDByName("user") :
          { [ resource |-> p.resource, action |-> p.action ] : p \in PermissionsOfRole(id) }
              = { [ resource |-> "user", action |-> "read" ] }
    /\ Cardinality(rolePermissions) = 14

\* C4: a successful InitializeSystemData on a store without roles,
\* permissions and assignments leaves exactly the system roles admin and
\* user, the 13 catalog permissions, all of them on admin, and user:read
\* alone on user
BootstrapFromEmpty ==
    [][ ( /\ roles = {}
          /\ permissions = {}
          /\ userRoles = {}
          /\ rolePermissions = {}
          /\ InitializeSystemDataCall
          /\ ret'.err = nil ) => BootstrappedExactly' ]_vars

\* the bootstrap has run on a store whose earlier rows were all deleted
BootstrapFromEmptyWitness ==
    /\ ret = [ op |-> "InitializeSystemData", err |-> nil ]
    /\ BootstrappedExactly
    /\ nextID.role > 3
    /\ \A rp \in rolePermissions : rp.assignedAt = now

\* C5: AssignRoleToUser / AssignPermissionToRole for a pair that is assigned
\* fails with ErrUserRoleAlreadyExists / ErrRolePermissionAlreadyExists and
\* leaves every assignment row, with its assigner and time, as it was
AssignTwiceFails ==
    [][ /\ \A u \in UserIDInputs, r \in RoleIDInputs, a \in AssignerIDInputs :
              (ret'.op = "AssignRoleToUser"
                 /\ (\E ur \in userRoles : ur.userID = u /\ ur.roleID = r)
                 /\ AssignRoleToUserCall(u, r, a))
                  => (ret'.err = ErrUserRoleAlreadyExists /\ UNCHANGED storeVars)
        /\ \A r \in RoleIDInputs, p \in PermissionIDInputs, a \in AssignerIDInputs :
              (ret'.op = "AssignPermissionToRole"
                 /\ (\E rp \in rolePermissions : rp.roleID = r /\ rp.permissionID = p)
                 /\ AssignPermissionToRoleCall(r, p, a))
                  => (ret'.err = ErrRolePermissionAlreadyExists /\ UNCHANGED storeVars)
      ]_vars

\* a second assignment of a role was refused at a later time than the first
AssignTwiceFailsWitness ==
    /\ ret = [ op |-> "AssignRoleToUser", err |-> ErrUserRoleAlreadyExists ]
    /\ \E ur \in userRoles : ur.assignedAt < now /\ ur.assignedBy # NULL

\* C6: RemoveRoleFromUser / RemovePermissionFromRole for a pair that is not
\* assigned fails with ErrUserRoleNotFound / ErrRolePermissionNotFound and
\* changes nothing in the store
RemoveUnassignedFails ==
    [][ /\ \A u \in UserIDInputs, r \in RoleIDInputs :
              (ret'.op = "RemoveRoleFromUser"
                 /\ (~\E ur \in userRoles : ur.userID = u /\ ur.roleID = r)
                 /\ RemoveRoleFromUserCall(u, r))
                  => (ret'.err = ErrUserRoleNotFound /\ UNCHANGED storeVars)
        /\ \A r \in RoleIDInputs, p \in PermissionIDInputs :
              (ret'.op = "RemovePermissionFromRole"
                 /\ (~\E rp \in rolePermissions : rp.roleID = r /\ rp.permissionID = p)
                 /\ RemovePermissionFromRoleCall(r, p))
                  => (ret'.err = ErrRolePermissionNotFound /\ UNCHANGED storeVars)
      ]_vars

(***************************************************************************)
(* Properties of the JWT manager and the middleware.                       *)
(***************************************************************************)
Accepted(tok, t) ==
    ValidateToken(config, tok, t) = [ claims |-> { tok.claims }, err |-> nil ]

Expired(tok, t) ==
    ValidateToken(config, tok, t) = [ claims |-> {}, err |-> ErrExpiredToken ]

\* an access token of DefaultTokenConfig issued now is accepted 14 minutes
\* later and reported expired 16 minutes later
DefaultScenario ==
    \A id \in IdentityInputs :
        LET tok == GenerateTokenPair(DefaultTokenConfig, id.userID, id.username,
                                     id.email, now).AccessToken
        IN /\ ValidateToken(DefaultTokenConfig, tok, now + 14 * Minute)
                  = [ claims |-> { tok.claims }, err |-> nil ]
           /\ ValidateToken(DefaultTokenConfig, tok, now + 16 * Minute)
                  = [ claims |-> {}, err |-> ErrExpiredToken ]

ExpiryDecides ==
    /\ \A tok \in KnownTokens :
           /\ now < tok.claims.exp => Accepted(tok, now)
           /\ now >= tok.claims.exp => Expired(tok, now)
    /\ resp.op = "ValidateToken" =>
           \A tok \in resp.presented \cap KnownTokens :
               /\ resp.err = nil => resp.claims = { tok.claims }
               /\ resp.err # nil => resp.err = ErrExpiredToken /\ resp.claims = {}
    /\ DefaultScenario

ExpiredStaysExpired ==
    \A tok \in KnownTokens : Expired(tok, now) => Expired(tok, now)'

\* C7: a token issued with expiry T is accepted with its claims at every
\* time before T and reported ErrExpiredToken at every time from T on, an
\* access token of the default 15 minutes is accepted after 14 minutes and
\* expired after 16, and a token once expired is never accepted again
TokenValidUntilExpiry == [] ExpiryDecides /\ [][ExpiredStaysExpired]_vars

\* ValidateToken has just reported an issued token expired at the very tick
\* of its expiry, while another issued token is still accepted
TokenValidUntilExpiryWitness ==
    /\ resp.op = "ValidateToken"
    /\ resp.err = ErrExpiredToken
    /\ \E tok \in resp.presented \cap KnownTokens : now = tok.claims.exp
    /\ \E tok \in KnownTokens : Accepted(tok, now)

\* the presented token is one the manager issued and it is before its expiry
CurrentlyValid(tok) == tok \in KnownTokens /\ now < tok.claims.exp

RefreshOnlyWhenValid ==
    \A tok \in resp'.presented :
        (resp'.op = "RefreshToken" /\ RefreshTokenCall(tok)) =>
            /\ resp'.err = nil <=> CurrentlyValid(tok)
            /\ resp'.pair # {} <=> CurrentlyValid(tok)
            /\ ~CurrentlyValid(tok) => issued' = issued
            /\ issued \subseteq issued'
            /\ \A t \in { now', tok.claims.exp - 1, tok.claims.exp } :
                   ValidateToken(config', tok, t) = ValidateToken(config, tok, t)

RefreshLeavesToken ==
    (resp.op = "RefreshToken" /\ resp.err = nil) =>
        \A tok \in resp.presented :
            /\ tok \in KnownTokens
            /\ Accepted(tok, now) <=> now < tok.claims.exp
            /\ \A p \in issued :
                   p.RefreshToken = tok =>
                       (Accepted(p.AccessToken, now)
                            <=> now < p.AccessToken.claims.exp)

\* C8: RefreshToken returns a pair exactly when the presented token was
\* issued by the manager and is before its expiry, and the presented token
\* and the access token of its pair are accepted afterwards exactly until
\* their own expiry
RefreshKeepsPresentedToken == [] RefreshLeavesToken /\ [][RefreshOnlyWhenValid]_vars

\* a refresh token was refreshed to a later pair, time has passed since, and
\* the presented token is still before its expiry
RefreshKeepsPresentedTokenWitness ==
    /\ resp.op = "RefreshToken"
    /\ resp.err = nil
    /\ \E tok \in resp.presented, p \in resp.pair :
           /\ p.RefreshToken.claims.iat > tok.claims.iat
           /\ now > p.RefreshToken.claims.iat
           /\ now < tok.claims.exp
           /\ Accepted(tok, now)

Identity(tok) ==
    [ userID |-> tok.claims.user_id, username |-> tok.claims.username,
      email |-> tok.claims.email ]

WellFormed(header) ==
    /\ Len(header) = 3
    /\ header[1] = Word("Bearer")
    /\ header[2] = Space
    /\ header[3].c = "token"

RequireAuthStep ==
    \A h \in { resp'.header } :
        (resp'.op = "RequireAuth" /\ RequireAuthCall(h)) =>
            IF WellFormed(h) /\ Accepted(h[3].tok, now)
            THEN /\ resp'.next
                 /\ GetCurrentUser(resp'.locals)
                        = [ user |-> { h[3].tok.claims }, ok |-> TRUE ]
                 /\ resp'.locals[UserIDContextKey] = { h[3].tok.claims.user_id }
            ELSE /\ ~resp'.next
                 /\ resp'.status = StatusUnauthorized
                 /\ resp'.locals = NoLocals
                 /\ ~GetCurrentUser(resp'.locals).ok

\* C10: RequireAuth runs the next handler only for a header "Bearer <token>"
\* whose token ValidateToken accepts, with the claims and the user id bound;
\* every other request is answered 401 with nothing bound and the next
\* handler not run
RequireAuthGuards == [][RequireAuthStep]_vars

\* RequireAuth has let a request through with the claims of bob bound
RequireAuthGuardsWitness ==
    /\ resp.op = "RequireAuth"
    /\ resp.next
    /\ GetCurrentUser(resp.locals).ok
    /\ resp.locals[UserIDContextKey] = { 2 }


(***************************************************************************)
(* Claims about the guards and the guarded routes.                        *)
(***************************************************************************)
\* the step is a request that was served
Served == resp' # resp /\ resp'.op = "Request"

\* the route a response belongs to
RouteOf(r) == CHOOSE route \in Routes : route.path = r.route

\* the guard of a route: the last middleware of its chain
GuardOf(route) == route.chain[Len(route.chain)]

\* the guard ran on the request: always behind OptionalAuth, behind
\* RequireAuth when RequireAuth let the request through
GuardReached(route, header) ==
    \/ route \in GuardRoutes
    \/ RequireAuth(config, header, now).next

\* what the engine holds in a store for the question a guard asks about a
\* user
EngineHoldsIn(s, m, userID) ==
    IF m.name = "RequirePermission"
    THEN HasPermission(s, userID, m.resource, m.action)
    ELSE IF m.name = "RequireRole"
         THEN HasRole(s, userID, m.roleName)
         ELSE HasRole(s, userID, RoleNameAdmin)

EngineHolds(m, userID) == EngineHoldsIn(Store, m, userID)

\* C11: each guard (RequirePermission, RequireRole, RequireAdmin) answers
\* 401 without asking the engine when no identity is bound to the request,
\* 500 when the engine returns an error, 403 when the engine answers false,
\* and calls the downstream handler only when the engine answers true
\* without error.
GuardOutcomes ==
    [][ Served /\ GuardReached(RouteOf(resp'), resp'.header) =>
          LET r == resp'
              m == GuardOf(RouteOf(r))
              bound == GetCurrentUser(r.locals).ok
          IN /\ ~bound =>
                   r.status = StatusUnauthorized /\ r.engine = {} /\ ~r.next
             /\ bound /\ r.fault =>
                   r.status = StatusInternalServerError /\ ~r.next
             /\ bound /\ ~r.fault /\ ~EngineHolds(m, CurrentUserID(r.locals)) =>
                   r.status = StatusForbidden /\ ~r.next
             /\ r.next <=>
                   /\ bound
                   /\ ~r.fault
                   /\ EngineHolds(m, CurrentUserID(r.locals))
             /\ bound => Cardinality(r.engine) = 1 ]_vars

\* a request with an identity met a failing query at RequirePermission and
\* was answered 500
GuardOutcomesWitness ==
    /\ resp.op = "Request"
    /\ resp.route = "/content"
    /\ GetCurrentUser(resp.locals).ok
    /\ resp.fault
    /\ resp.status = StatusInternalServerError
    /\ ~resp.next

\* the token a header presents as "Bearer <token>"
BearerToken(header) ==
    IF Len(header) = 3 /\ header[1] = Word("Bearer") /\ header[2] = Space
       /\ header[3].c = "token"
    THEN { header[3].tok }
    ELSE {}

\* C12: a request reaches a handler of the user, role and permission
\* management groups (/users, /roles, /permissions) only if it carries a
\* token that ValidateToken accepts and the user named in the token holds
\* the role admin when the request is served.
ManagementNeedsAdmin ==
    [][ Served /\ resp'.route \in { route.path : route \in ManagementRoutes }
               /\ resp'.next =>
          \E tok \in BearerToken(resp'.header) :
              /\ ValidateToken(config, tok, now).err = nil
              /\ HasRole(Store, tok.claims.user_id, RoleNameAdmin) ]_vars

\* an administrator's request reached a handler of /roles
ManagementNeedsAdminWitness ==
    /\ resp.op = "Request"
    /\ resp.route = "/roles"
    /\ resp.next
    /\ \E tok \in BearerToken(resp.header) :
          /\ tok \in AccessTokens
          /\ HasRole(Store, tok.claims.user_id, RoleNameAdmin)

\* the store after the step
StoreAfter ==
    [ users |-> users', roles |-> roles', permissions |-> permissions',
      userRoles |-> userRoles', rolePermissions |-> rolePermissions',
      nextID |-> nextID' ]

\* the answer to a request that presents a token on a route, for a store
\* and a time, when no query fails
Decision(s, route, tok, t) ==
    Serve(route.chain, s, config, << Word("Bearer"), Space, Tok(tok) >>,
          NoLocals, t, FALSE)

\* a request with an identity whose query succeeded is decided by the store
\* as it is when the request is served
DecidedByStore ==
    Served /\ GuardReached(RouteOf(resp'), resp'.header) /\ ~resp'.fault
           /\ GetCurrentUser(resp'.locals).ok =>
       /\ resp'.next <=>
             EngineHolds(GuardOf(RouteOf(resp')), CurrentUserID(resp'.locals))
       /\ ~resp'.next => resp'.status = StatusForbidden

\* when a step takes from a user what a guard asks for, the request that
\* follows with the user's token, still valid, is answered 403; when a step
\* gives it, the request that follows is let through
ChangeShows ==
    (userRoles' # userRoles \/ rolePermissions' # rolePermissions) =>
        \A route \in Routes, tok \in AccessTokens :
            LET m == GuardOf(route)
                userID == tok.claims.user_id
            IN /\ ValidateToken(config, tok, now).err = nil
                  /\ EngineHoldsIn(Store, m, userID)
                  /\ ~EngineHoldsIn(StoreAfter, m, userID) =>
                     /\ ValidateToken(config, tok, now').err = nil
                     /\ Decision(StoreAfter, route, tok, now').status
                            = StatusForbidden
                     /\ ~Decision(StoreAfter, route, tok, now').next
               /\ ValidateToken(config, tok, now).err = nil
                  /\ ~EngineHoldsIn(Store, m, userID)
                  /\ EngineHoldsIn(StoreAfter, m, userID) =>
                     Decision(StoreAfter, route, tok, now').next

\* C13: the guards decide by the store as it is when the request is served;
\* nothing about roles and permissions is kept in the token or in the
\* middleware.  After RemoveRoleFromUser or RemovePermissionFromRole the
\* next RequirePermission/RequireRole check that depended on the removed
\* assignment is answered 403 although the token is still valid, and after
\* an assignment is added the next check is let through.
GuardsReadStore == [][DecidedByStore /\ ChangeShows]_vars

\* the same request with the same token was let through on /content and is
\* now answered 403: the permission was taken from the role in between,
\* the user still holds the role and the token is still valid
GuardsReadStoreWitness ==
    /\ resp.op = "Request"
    /\ resp.route = "/content"
    /\ resp.before = "allowed"
    /\ resp.status = StatusForbidden
    /\ ret = [ op |-> "RemovePermissionFromRole", err |-> nil ]
    /\ \E tok \in BearerToken(resp.header) :
          /\ ValidateToken(config, tok, now).err = nil
          /\ HasRole(Store, tok.claims.user_id, RoleNameUser)
          /\ ~HasPermission(Store, tok.claims.user_id, "user", "read")

(***************************************************************************)
(* Claims about calls that run at the same time.                          *)
(***************************************************************************)
\* C14: in every reachable state, however creations and assignments
\* interleave, no two roles share a name, no two permissions share a name
\* or a (resource, action) pair, no two user-role rows share a (user, role)
\* pair and no two role-permission rows share a (role, permission) pair.
UniqueRows == NoDuplicateRows(Store)

\* two callers passed the existence check of the same assignment or
\* creation; one insert stored the row and the unique index refused the other
UniqueRowsWitness ==
    \E c, d \in Callers :
        /\ c # d
        /\ calls[c].call = calls[d].call
        /\ calls[c].call.op = "AssignRoleToUser"
        /\ calls[c].pc = "done" /\ calls[c].err = nil
        /\ calls[d].pc = "done" /\ calls[d].err = ConstraintError
        /\ \E ur \in userRoles :
              ur.userID = calls[c].call.userID /\ ur.roleID = calls[c].call.roleID

\* the error a call returns for a pair that is already assigned
AlreadyAssigned(op) ==
    IF op = "AssignRoleToUser"
    THEN ErrUserRoleAlreadyExists
    ELSE ErrRolePermissionAlreadyExists

\* the callers of a call
CallersOf(call) == { c \in Callers : calls[c].call = call }

\* the row of an assignment is stored
Assigned(call) ==
    IF call.op = "AssignRoleToUser"
    THEN UserRoleHasRole(Store, call.userID, call.roleID)
    ELSE RolePermissionHasPermission(Store, call.roleID, call.permissionID)

\* C15: when two AssignRoleToUser calls (or two AssignPermissionToRole
\* calls) for the same pair run at the same time, under every interleaving
\* of their checks and inserts exactly one call succeeds and stores the row,
\* and every other call fails with ErrUserRoleAlreadyExists
\* (ErrRolePermissionAlreadyExists).
OneAssignmentWins ==
    \A call \in { calls[c].call : c \in Callers } :
        /\ call.op \in { "AssignRoleToUser", "AssignPermissionToRole" }
        /\ Cardinality(CallersOf(call)) >= 2
        /\ \A c \in CallersOf(call) : calls[c].pc = "done"
        /\ \E c \in CallersOf(call) : calls[c].err = nil
        => /\ Cardinality({ c \in CallersOf(call) : calls[c].err = nil }) = 1
           /\ Assigned(call)
           /\ \A c \in CallersOf(call) :
                 calls[c].err # nil => calls[c].err = AlreadyAssigned(call.op)

(***************************************************************************)
(* Claims about single calls of the service.                              *)
(***************************************************************************)
\* C16: CreateRole (CreatePermission) with a name that exists fails with
\* ErrRoleAlreadyExists (ErrPermissionAlreadyExists) and inserts nothing:
\* the roles and the permissions are as they were.
CreateExistingFails ==
    [][ /\ \A name \in RoleNameInputs :
              (ret'.op = "CreateRole"
                 /\ (\E r \in roles : r.name = name)
                 /\ CreateRoleCall(name))
                  => (ret'.err = ErrRoleAlreadyExists /\ UNCHANGED storeVars)
        /\ \A p \in PermissionInputs :
              (ret'.op = "CreatePermission"
                 /\ (\E q \in permissions : q.name = p.name)
                 /\ CreatePermissionCall(p))
                  => (ret'.err = ErrPermissionAlreadyExists /\ UNCHANGED storeVars)
      ]_vars

\* a second CreateRole with the name of a stored role was refused
CreateExistingFailsWitness ==
    /\ ret = [ op |-> "CreateRole", err |-> ErrRoleAlreadyExists ]
    /\ \E r \in roles : r.name \in RoleNameInputs /\ ~r.isSystem

\* C17: after the bootstrap has run, a user A created through registration
\* (CreateUser) holds the role user, so that HasPermission(A, "user", "read")
\* is true and HasPermission(A, "user", "manage") is false.
RegisteredUserReads ==
    [][ /\ ret.op = "InitializeSystemData" /\ ret.err = nil
        /\ ret'.op = "CreateUser" /\ ret'.err = nil
        /\ nextID'.user = nextID.user + 1
        => /\ HasRole(StoreAfter, nextID.user, RoleNameUser)
           /\ HasPermission(StoreAfter, nextID.user, "user", "read")
           /\ ~HasPermission(StoreAfter, nextID.user, "user", "manage") ]_vars

(***************************************************************************)
(* Claims about the kinds of token.                                       *)
(***************************************************************************)
\* every token that ValidateToken accepts now is let through by RequireAuth
\* and renewed by RefreshToken
Interchangeable ==
    \A tok \in TokenInputs :
        Accepted(tok, now) =>
            /\ RequireAuth(config, << Word("Bearer"), Space, Tok(tok) >>, now).next
            /\ RefreshToken(config, tok, now).err = nil

\* the calls made with an accepted token: RequireAuth binds its claims and
\* runs the next handler, RefreshToken returns a new pair for its user
AcceptedEverywhere ==
    /\ \A h \in { resp'.header } :
          (resp'.op = "RequireAuth" /\ RequireAuthCall(h)
             /\ WellFormed(h) /\ Accepted(h[3].tok, now)) =>
              /\ resp'.next
              /\ resp'.locals[AuthContextKey] = { h[3].tok.claims }
    /\ \A tok \in resp'.presented :
          (resp'.op = "RefreshToken" /\ RefreshTokenCall(tok)
             /\ Accepted(tok, now)) =>
              /\ resp'.err = nil
              /\ resp'.pair = { GenerateTokenPair(config, tok.claims.user_id,
                                    tok.claims.username, tok.claims.email, now) }

\* C18: access and refresh tokens are interchangeable: every token that
\* ValidateToken accepts is accepted by RequireAuth and by RefreshToken, so
\* a refresh token authenticates a request wherever an access token would
\* and an access token presented to RefreshToken yields a new pair.
TokensInterchangeable == [] Interchangeable /\ [][AcceptedEverywhere]_vars

\* a refresh token that is no access token authenticated a request
TokensInterchangeableWitness ==
    /\ resp.op = "RequireAuth"
    /\ resp.next
    /\ WellFormed(resp.header)
    /\ resp.header[3].tok \in { p.RefreshToken : p \in issued } \ AccessTokens
    /\ resp.locals[AuthContextKey] = { resp.header[3].tok.claims }

\* C19: GetUserPermissions(userID) returns exactly the union of the
\* permissions of all roles assigned to the user, as a set: a permission
\* that two or more of the user's roles lead to appears exactly once, and no
\* permission outside the union appears.
UserPermissionsAreUnion ==
    \A u \in CheckedUserIDs :
        \A ps \in { GetUserPermissions(Store, u) } :
            /\ \A i, j \in 1 .. Len(ps) : ps[i] = ps[j] => i = j
            /\ { ps[i] : i \in 1 .. Len(ps) }
                   = UNION { PermissionsOfRole(ur.roleID) :
                               ur \in { x \in userRoles : x.userID = u } }

\* a user holds two roles that both lead to one permission, and the
\* permission is in the result once
UserPermissionsAreUnionWitness ==
    \E a, b \in userRoles :
        /\ a.userID = b.userID
        /\ a.roleID # b.roleID
        /\ \E p \in PermissionsOfRole(a.roleID) \cap PermissionsOfRole(b.roleID) :
              Cardinality({ i \in 1 .. Len(GetUserPermissions(Store, a.userID)) :
                              GetUserPermissions(Store, a.userID)[i] = p }) = 1

(***************************************************************************)
(* Properties of the update calls.                                         *)
(***************************************************************************)
\* the columns of a row that an update request does not carry
RoleFrame(r) == [ id |-> r.id, name |-> r.name, isSystem |-> r.isSystem ]

PermissionFrame(p) ==
    [ id |-> p.id, name |-> p.name, resource |-> p.resource,
      action |-> p.action, isSystem |-> p.isSystem ]

\* an UpdateRole step on role id: only the display name and description of
\* that row may differ afterwards, and they are the requested ones when the
\* row exists and the display name is not empty
UpdateRoleFrame ==
    ret'.op = "UpdateRole" =>
       \A id \in RoleIDInputs, d \in UpdateInputs :
          UpdateRoleCall(id, d) =>
             /\ UNCHANGED << users, permissions, userRoles, rolePermissions, nextID >>
             /\ { RoleFrame(r) : r \in roles' } = { RoleFrame(r) : r \in roles }
             /\ Cardinality(roles') = Cardinality(roles)
             /\ \A r \in roles : r.id # id => r \in roles'
             /\ (id \in IDs(roles) /\ d.displayName # "")
                   => /\ ret'.err = nil
                      /\ \E q \in roles' : /\ q.id = id
                                           /\ q.displayName = d.displayName
                                           /\ q.description = d.description
             /\ id \notin IDs(roles) => ret'.err = ErrRoleNotFound /\ roles' = roles

UpdatePermissionFrame ==
    ret'.op = "UpdatePermission" =>
       \A id \in PermissionIDInputs, d \in UpdateInputs :
          UpdatePermissionCall(id, d) =>
             /\ UNCHANGED << users, roles, userRoles, rolePermissions, nextID >>
             /\ { PermissionFrame(p) : p \in permissions' }
                   = { PermissionFrame(p) : p \in permissions }
             /\ Cardinality(permissions') = Cardinality(permissions)
             /\ \A p \in permissions : p.id # id => p \in permissions'
             /\ (id \in IDs(permissions) /\ d.displayName # "")
                   => /\ ret'.err = nil
                      /\ \E q \in permissions' : /\ q.id = id
                                                 /\ q.displayName = d.displayName
                                                 /\ q.description = d.description
             /\ id \notin IDs(permissions)
                   => ret'.err = ErrPermissionNotFound /\ permissions' = permissions

\* C20: UpdateRole and UpdatePermission change only the display name and the
\* description of the target row; its id, name, is_system flag, resource and
\* action, every other row and every assignment stay as they were, also when
\* the target is a system row
UpdatesChangeLabelsOnly == [][UpdateRoleFrame /\ UpdatePermissionFrame]_vars

\* an update has just succeeded while a system role and a system permission
\* carry a new display name and are still system rows with assignments
UpdatesChangeLabelsOnlyWitness ==
    /\ ret.op \in { "UpdateRole", "UpdatePermission" }
    /\ ret.err = nil
    /\ \E r \in roles :
          /\ r.isSystem /\ r.displayName = "Renamed" /\ r.description = "changed"
          /\ \E ur \in userRoles : ur.roleID = r.id
    /\ \E p \in permissions :
          /\ p.isSystem /\ p.displayName = "Renamed"
          /\ \E rp \in rolePermissions : rp.permissionID = p.id

(***************************************************************************)
(* Properties of the audit columns.                                        *)
(***************************************************************************)
\* C21: every user-role row and every role-permission row in the store
\* records the identity that created it: its assigner id is set and is not 0
AssignmentsRecordAssigner ==
    /\ \A ur \in userRoles : ur.assignedBy # NULL /\ ur.assignedBy # NoID
    /\ \A rp \in rolePermissions : rp.assignedBy # NULL /\ rp.assignedBy # NoID

(***************************************************************************)
(* Properties of the bootstrap on a store that can fail.                   *)
(***************************************************************************)
\* C22: InitializeSystemData returns nil only if every store call of the
\* run succeeded: a run in which a call on the store failed returns an error
BootstrapReportsFailures ==
    [][ (ret'.op = "InitializeSystemData" /\ ret'.err = nil)
           => \A failAt \in FailAts :
                 InitializeSystemDataRunCall(failAt)
                    => ~ InitializeSystemDataRun(Store, now, failAt).failed ]_vars

SystemRowsInCatalog ==
    /\ \A r \in roles : r.isSystem => \E i \in DOMAIN systemRoles : r.name = systemRoles[i]
    /\ \A p \in permissions :
          p.isSystem => \E i \in DOMAIN systemPermissions :
                           /\ p.name = systemPermissions[i].name
                           /\ p.resource = systemPermissions[i].resource
                           /\ p.action = systemPermissions[i].action

\* the create handlers insert non-system rows only
CreatesNonSystem ==
    /\ ret'.op = "CreateRole" => \A r \in roles' \ roles : ~ r.isSystem
    /\ ret'.op = "CreatePermission" => \A p \in permissions' \ permissions : ~ p.isSystem

\* DeleteRole / DeletePermission of a non-system row is never refused as the
\* deletion of a system row, and deletes the row when no assignment refers
\* to it
DeletesNonSystem ==
    /\ ret'.op = "DeleteRole" =>
          \A id \in RoleIDInputs :
             (DeleteRoleCall(id) /\ \E r \in roles : r.id = id /\ ~ r.isSystem)
                => /\ ret'.err # ErrSystemRoleCannotDelete
                   /\ (/\ \A ur \in userRoles : ur.roleID # id
                       /\ \A rp \in rolePermissions : rp.roleID # id)
                         => ret'.err = nil /\ id \notin IDs(roles')
    /\ ret'.op = "DeletePermission" =>
          \A id \in PermissionIDInputs :
             (DeletePermissionCall(id) /\ \E p \in permissions : p.id = id /\ ~ p.isSystem)
                => /\ ret'.err # ErrSystemPermissionCannotDelete
                   /\ (\A rp \in rolePermissions : rp.permissionID # id)
                         => ret'.err = nil /\ id \notin IDs(permissions')

Outcome(s) ==
    [ roles |-> { [ name |-> r.name, isSystem |-> r.isSystem ] : r \in s.roles },
      permissions |-> { [ name |-> p.name, resource |-> p.resource,
                          action |-> p.action, isSystem |-> p.isSystem ] :
                        p \in s.permissions },
      rolePermissions |->
          { << (CHOOSE r \in s.roles : r.id = rp.roleID).name,
               (CHOOSE p \in s.permissions : p.id = rp.permissionID).name >> :
            rp \in s.rolePermissions } ]

\* C29: when a run of InitializeSystemData has stopped with an error after
\* some of its steps, a complete run on the store it left behind ends with
\* the same roles, permissions and role-permission assignments as a complete
\* run on the store the stopped run started on
InterruptedBootstrapConverges ==
    [][ (ret'.op = "InitializeSystemData" /\ ret'.err # nil)
           => \A later \in { InitializeSystemData(StoreAfter, now).s },
                 whole \in { InitializeSystemData(Store, now).s } :
                 Outcome(later) = Outcome(whole) ]_vars

\* a run has been stopped by a failing store call inside the first loop of
\* assignPermissionsToRoles: admin holds some of the catalog, not all of it
InterruptedBootstrapConvergesWitness ==
    /\ ret = [ op |-> "InitializeSystemData", err |-> ErrQuery ]
    /\ \E r \in roles :
          /\ r.name = RoleNameAdmin
          /\ Cardinality({ rp \in rolePermissions : rp.roleID = r.id }) \in 1 .. 12

Derivable(cfg) == cfg.Iterations >= 1 /\ cfg.Parallelism >= 1 /\ cfg.KeyLength >= 1

\* HashPassword returned a string; decodeHash reads the parameters, the salt
\* and the key length of the call back from it; VerifyPassword on it is
\* true for the hashed password and false for every other password
PasswordRoundTrip ==
    /\ resp.op = "HashPassword" =>
          /\ ~ resp.panic
          /\ \A d \in { decodeHash(resp.encoded) } :
                d.err = nil /\ d.config = resp.config /\ d.salt = resp.salt
          /\ \A i \in 1 .. Len(PasswordInputs) :
                \A v \in VerifyPassword(PasswordInputs[i], resp.encoded) :
                   /\ ~ v.panic /\ v.err = nil
                   /\ v.valid <=> PasswordInputs[i] = resp.password
    /\ resp.op = "VerifyPassword" =>
          /\ ~ resp.panic /\ resp.err = nil
          /\ resp.valid <=> resp.tried = resp.password

RoleStepFails(c, id) ==
    \/ GetRoleByName(c, RoleNameUser) # nil
    \/ AssignRoleToUser(c, id,
           (CHOOSE r \in RoleGetByName(c, RoleNameUser) : TRUE).id, 0, now).err # nil

\* C28: CreateUserWithRole is not atomic: once the user row has been
\* inserted, a failure to find the role or to insert the user-role
\* assignment is only logged; the call still returns the created user with a
\* nil error and the store keeps a user that holds no role.
CreateUserNotAtomic ==
    [][ ret'.op = "CreateUser" =>
        \A u \in UserInputs :
          CreateUserCall(u) =>
             \A c \in { UserCreateSave(Store, u.username, u.email, << >>, "active") } :
                (c.err = nil /\ RoleStepFails(c.s, nextID.user)) =>
                   /\ ret'.err = nil
                   /\ \E row \in users' :
                         /\ row.id = nextID.user
                         /\ row.username = u.username /\ row.email = u.email
                         /\ users' = users \cup { row }
                   /\ nextID'.user = nextID.user + 1
                   /\ userRoles' = userRoles
                   /\ ~ \E ur \in userRoles' : ur.userID = nextID.user ]_vars

\* role user exists, and the user just created without error holds no role
CreateUserNotAtomicWitness ==
    /\ ret.op = "CreateUser" /\ ret.err = nil
    /\ GetRoleByName(Store, RoleNameUser) = nil
    /\ \E u \in users :
          /\ u.id = nextID.user - 1
          /\ ~ \E ur \in userRoles : ur.userID = u.id

(***************************************************************************)
(* Claims about the login and the status of a user.                        *)
(***************************************************************************)
\* the row of the user a login request names
Named(req) == { u \in users : u.username = req.username }

\* the password of the request is the one its user registered with
RightPassword(req) ==
    \E u \in UserInputs : u.username = req.username /\ u.password = req.password

\* the answer of the login request req, made on the store before the step
LoginAnswer(req, answer) ==
    /\ ~ answer.panic
    /\ answer.pair # {} <=>
          /\ RightPassword(req)
          /\ \E u \in Named(req) : u.status = "active"
    /\ answer.pair # {} =>
          /\ answer.err = nil /\ answer.status = StatusOK
          /\ \E u \in Named(req) :
                answer.pair = { GenerateTokenPair(config, u.id, u.username,
                                                  u.email, now) }
    /\ (Named(req) = {} \/ ~ RightPassword(req)) =>
          answer.err = ErrInvalidCredentials /\ answer.status = StatusUnauthorized
    /\ (RightPassword(req) /\ \E u \in Named(req) : u.status = "banned") =>
          answer.err = ErrUserBanned /\ answer.status = StatusForbidden
    /\ (RightPassword(req) /\ \E u \in Named(req) : u.status = "inactive") =>
          answer.err = ErrUserInactive /\ answer.status = StatusForbidden

\* C27: Login issues a token pair only if ValidateUser succeeds, that is, if
\* the user exists, the password verifies and the status of the user is
\* active; with the right password a banned user gets ErrUserBanned and an
\* inactive user ErrUserInactive, and with an unknown username or a wrong
\* password the result is ErrInvalidCredentials whatever the status.
LoginNeedsValidUser ==
    [][ resp'.op = "Login" =>
          \A req \in { [ username |-> resp'.username,
                         password |-> resp'.password ] } :
             LoginCall(req) =>
                /\ LoginAnswer(req, resp')
                /\ issued' = issued \cup resp'.pair
                /\ UNCHANGED storeVars ]_vars

\* a banned user has just been refused with the wrong password as invalid
\* credentials
LoginNeedsValidUserWitness ==
    /\ resp.op = "Login"
    /\ resp.err = ErrInvalidCredentials /\ resp.pair = {}
    /\ \E u \in users :
          /\ u.username = resp.username /\ u.status = "banned"
          /\ resp.password # "" /\ ~ RightPassword(resp)

\* the token names a user that holds an active row
OfActiveUser(tok) ==
    \E u \in users : u.id = tok.claims.user_id /\ u.status = "active"

\* C26: RefreshToken and RequireAuth never consult the identity store: a
\* token that is signed and not expired authenticates the request and is
\* refreshed into a new valid pair for the user of its claims whether that
\* user is active, inactive, banned or deleted, and neither call changes the
\* store; a banned user who refreshes before each expiry keeps obtaining
\* valid tokens without passing the status check of the login.
TokensOutliveStatus ==
    [][ /\ resp'.op = "RefreshRequest" =>
            \A tok \in resp'.presented :
               (RefreshRequestCall(tok) /\ Accepted(tok, now)) =>
                  /\ resp'.status = StatusOK /\ resp'.err = nil
                  /\ resp'.pair =
                        { GenerateTokenPair(config, tok.claims.user_id,
                              tok.claims.username, tok.claims.email, now) }
                  /\ \A p \in resp'.pair :
                        /\ Accepted(p.AccessToken, now)
                        /\ Accepted(p.RefreshToken, now)
                        /\ p.RefreshToken.claims.exp > now
                  /\ UNCHANGED storeVars
        /\ resp'.op = "RequireAuth" =>
            \A h \in { resp'.header } :
               (RequireAuthCall(h) /\ Accepted(h[3].tok, now)) =>
                  /\ resp'.next
                  /\ resp'.locals[AuthContextKey] = { h[3].tok.claims }
                  /\ UNCHANGED storeVars ]_vars

\* the token of a banned user has just been refreshed into a new pair
TokensOutliveStatusWitness ==
    /\ resp.op = "RefreshRequest"
    /\ resp.status = StatusOK /\ resp.pair # {}
    /\ \E tok \in resp.presented :
          /\ \E u \in users : u.id = tok.claims.user_id /\ u.status = "banned"
          /\ ~ OfActiveUser(tok)
          /\ \A p \in resp.pair : p.RefreshToken.claims.exp > tok.claims.exp
====
